---- MODULE Spec2Model ----
(***************************************************************************)
(* A model of src/code/enrichment/rdap_enrichment.py: the RDAP cache       *)
(* (load_cache, the in-memory map, the bounded queue and                   *)
(* cache_writer_thread), the token bucket, the CDN filter, the consensus   *)
(* resolver, the shard assignment and the per-file driver of main().       *)
(***************************************************************************)
EXTENDS Integers, Sequences, FiniteSets, TLC

VARIABLES
    cacheFile,      \* the lines of the RDAP_CACHE file, in append order
    cache,          \* the in-memory dict of main()
    mainPc,         \* where the main thread stands in main()
    cons_in,        \* one row handed to consensus_cols
    cons_out,       \* the (cons, rule) pair consensus_cols gives the row
    cdn_in,         \* one row handed to exclude_cdn
    cdn_out,        \* whether exclude_cdn keeps the row
    all_csvs,       \* the sorted list of discovered input files
    SHARD_TOTAL,    \* the SHARD_TOTAL setting
    my_jobs,        \* shard index -> the my_jobs list that process computes
    clock,          \* time.monotonic(), in ticks
    tb_tokens,      \* _tb_tokens, in 1/TicksPerToken of a token
    tb_last,        \* _tb_last
    w_pc,           \* where each pool worker stands in rdap_lookup
    w_now,          \* each worker's `now` sample
    w_wake,         \* each sleeping worker's acquire time and the wait it sleeps
    acq_log,        \* history: the time and the wait of every acquire, in lock order
    lookup_log,     \* history: the start of every registry lookup
    cfg,            \* the settings read from the environment
    job_ips,        \* per assigned file, the distinct post-filter source IPs (ips)
    out_exists,     \* per assigned file, whether its output path exists
    file_i,         \* the position of the file in hand within my_jobs
    to_query,       \* the IPs submitted to the pool for the file in hand
    futs,           \* the submitted futures: pending, or done with their result
    completed,      \* the finished futures as_completed has not yielded yet
    cur,            \* the (ip, data) in hand between lines 380 and 381
    rows,           \* the cache entries the merge read for the file in hand
    cache_q,        \* _cache_q
    stop_evt,       \* stop_evt.is_set()
    writerPc,       \* where cache_writer_thread stands
    journal,        \* the records of _progress.jsonl
    errors,         \* the lines of _errors.txt
    interrupted,    \* a KeyboardInterrupt was raised in the main thread
    hist,           \* history: the log and the outputs at the start, and what was
                    \* looked up, recorded and enqueued in the run
    fs,             \* write_atomic: the file under the output path and under the .tmp path
    waPc,           \* where a call of write_atomic stands
    waVer,          \* which frame (the how-manieth version of the output) is being written
    sel_in,         \* the ips, the cache and the settings handed to the selection loop
    sel_out,        \* the to_query the selection loop built
    selPc,          \* whether the selection loop has run
    rows_in,        \* an input file, the cache and the settings handed to process_csv
    rows_out,       \* the frame process_csv returns for it, or that it raised
    rowsPc,         \* whether process_csv has run on rows_in
    bo_pc,          \* where a call of _with_backoff stands
    bo_calls,       \* history: the outcome of every invocation of func, in order
    bo_delay,       \* delay, in half seconds
    bo_sleeps,      \* history: the delay of every sleep, in order
    bo_ret,         \* what the call returned or raised
    bud_in,         \* the list ips, the cache and the settings one file is processed with
    bud_query,      \* to_query
    bud_cache,      \* the cache after the lookups of the file
    bud_rd,         \* the rows of rd
    bud_pc,         \* where the file stands between selection and merge
    sl_file,        \* the shared cache file, as the pieces appended to it in order
    sl_lock,        \* the process holding the flock on the file, or 0
    sl_pc,          \* where the writer thread of each shard process stands
    sl_buf,         \* the bytes each process has written to f and not yet flushed
    sl_n            \* how many records each process has taken from its queue

pureVars == <<cons_in, cons_out, cdn_in, cdn_out, all_csvs, SHARD_TOTAL, my_jobs>>
cacheVars == <<cacheFile, cache>>
tbVars == <<clock, tb_tokens, tb_last, w_pc, w_now, w_wake, acq_log, lookup_log>>
runVars == <<cfg, job_ips, out_exists, file_i, to_query, futs, completed, cur, rows,
             cache_q, stop_evt, writerPc, journal, errors, interrupted,
             hist>>
baseVars == <<cacheVars, mainPc, pureVars, tbVars, runVars>>
waVars == <<fs, waPc, waVer>>
selVars == <<sel_in, sel_out, selPc>>
rowsVars == <<rows_in, rows_out, rowsPc>>
boVars == <<bo_pc, bo_calls, bo_delay, bo_sleeps, bo_ret>>
budVars == <<bud_in, bud_query, bud_cache, bud_rd, bud_pc>>
slVars == <<sl_file, sl_lock, sl_pc, sl_buf, sl_n>>
extVars == <<waVars, selVars, rowsVars, boVars, budVars, slVars>>
notWa == <<baseVars, selVars, rowsVars, boVars, budVars, slVars>>
notSel == <<baseVars, waVars, rowsVars, boVars, budVars, slVars>>
notRows == <<baseVars, waVars, selVars, boVars, budVars, slVars>>
notBo == <<baseVars, waVars, selVars, rowsVars, budVars, slVars>>
notBud == <<baseVars, waVars, selVars, rowsVars, boVars, slVars>>
notSl == <<baseVars, waVars, selVars, rowsVars, boVars, budVars>>
vars == <<extVars, cacheFile, cache, mainPc, cons_in, cons_out, cdn_in, cdn_out,
          all_csvs, SHARD_TOTAL, my_jobs,
          clock, tb_tokens, tb_last, w_pc, w_now, w_wake, acq_log, lookup_log,
          cfg, job_ips, out_exists, file_i, to_query, futs, completed, cur, rows,
          cache_q, stop_evt, writerPc, journal, errors, interrupted,
          hist>>

None == "None"
Raised == "Raised"

Max(a, b) == IF a >= b THEN a ELSE b
Min(a, b) == IF a <= b THEN a ELSE b

(***************************************************************************)
(* Cache entries, as rdap_lookup normalises them, and the JSONL lines of   *)
(* the cache file.                                                         *)
(***************************************************************************)
\* The number of distinct IP strings of the model.
NumIps == 2
IpKeys == 1..NumIps

\* {"ok": True, "rdap_net_cc": cc, ...} and {"ok": False, "error": ...}
\* (empty: the dict has no key at all, so `not c` is true of it.)
OkEntry(cc) == [ok |-> TRUE, rdap_net_cc |-> cc, empty |-> FALSE]
FailEntry == [ok |-> FALSE, rdap_net_cc |-> None, empty |-> FALSE]
\* "data": {}, a falsy value a foreign writer may leave
EmptyData == [ok |-> FALSE, rdap_net_cc |-> None, empty |-> TRUE]
\* What the registry call gives once rate limiting and backoff are through: a
\* network with a country code, one without, or an exception.
RawOutcomes == {"RU", None, Raised}
\* Lines 245-265: the try of rdap_lookup and its `except Exception`.
NoCatch_rdap_lookup(raw) == IF raw = Raised THEN EmptyData ELSE OkEntry(raw)

rdap_lookup(raw) == IF raw = Raised THEN FailEntry ELSE OkEntry(raw)
LookupResults == {rdap_lookup(raw) : raw \in RawOutcomes}
DataVals == LookupResults \cup {EmptyData}

\* The JSON value under "ip": a string, or a number that str() turns into one.
IpVals == [t : {"str", "num"}, v : IpKeys]
\* str(o["ip"]): "7" and 7 give the same dict key.
Str(ipval) == ipval.v

RecordLine(ipval, data) == [kind |-> "rec", ip |-> ipval, data |-> data]
\* Lines json.loads rejects, JSON that is no object, objects with a key missing,
\* and lines whose bytes are not UTF-8.
NoIp == [t |-> "str", v |-> 0]
NoJsonLine == [kind |-> "nojson", ip |-> NoIp, data |-> EmptyData]
NotObjLine == [kind |-> "notobj", ip |-> NoIp, data |-> EmptyData]
NoIpLine(data) == [kind |-> "noip", ip |-> NoIp, data |-> data]
NoDataLine(ipval) == [kind |-> "nodata", ip |-> ipval, data |-> EmptyData]
BadUtf8Line == [kind |-> "badutf8", ip |-> NoIp, data |-> EmptyData]

\* The record the writer appends for (ip, data): json.dumps({"ip": ip, "data": data}).
WrittenLine(ip, data) == RecordLine([t |-> "str", v |-> ip], data)

EmptyDict == [k \in {} |-> EmptyData]
DictPut(d, k, v) == [x \in (DOMAIN d) \cup {k} |-> IF x = k THEN v ELSE d[x]]
\* cache.get(ip): the entry, or None, which is as falsy as {}
DictGet(d, k) == IF k \in DOMAIN d THEN d[k] ELSE EmptyData

\* The body of the for loop of load_cache: json.loads, o["ip"], o["data"], each of
\* which may raise inside the try; the except clause passes.
FirstWins_load_cache_line(d, line) ==
    IF line.kind = "rec" /\ Str(line.ip) \notin DOMAIN d
    THEN DictPut(d, Str(line.ip), line.data) ELSE d

load_cache_line(d, line) ==
    IF line.kind = "rec" THEN DictPut(d, Str(line.ip), line.data) ELSE d

RECURSIVE load_cache_loop(_, _)
load_cache_loop(d, lines) ==
    IF lines = <<>> THEN d
    ELSE load_cache_loop(load_cache_line(d, Head(lines)), Tail(lines))

\* `for line in f` decodes the file as UTF-8 outside the try: bytes that do not
\* decode raise UnicodeDecodeError from the iteration itself.
Decodes(lines) == \A i \in 1..Len(lines) : lines[i].kind # "badutf8"

load_cache(lines) == load_cache_loop(EmptyDict, lines)

(***************************************************************************)
(* load_cache as a function of the file: SpecLoad.                         *)
(***************************************************************************)
MaxLogLen == 3

LoadLines ==
    {RecordLine(i, d) : i \in IpVals, d \in {OkEntry("RU"), FailEntry}}
    \cup {RecordLine([t |-> "str", v |-> 1], EmptyData)}
    \cup {NoJsonLine, NotObjLine, NoIpLine(FailEntry),
          NoDataLine([t |-> "str", v |-> 1]), BadUtf8Line}

RECURSIVE SeqsUpTo(_, _)
SeqsUpTo(S, n) ==
    IF n = 0 THEN {<<>>}
    ELSE LET shorter == SeqsUpTo(S, n - 1)
         IN shorter \cup {Append(s, x) : s \in shorter, x \in S}

\* The values the variables of the other components keep in a specification
\* of one component.
NoItem == [ip |-> 0, data |-> EmptyData]
NoHist == [log0 |-> 0, out0 |-> <<>>, performed |-> {}, recorded |-> <<>>,
           enqueued |-> <<>>, fatal |-> None]
RunIdle ==
    /\ cfg = None /\ job_ips = <<>> /\ out_exists = <<>> /\ file_i = 0
    /\ to_query = {} /\ futs = <<>> /\ completed = <<>> /\ cur = NoItem
    /\ rows = <<>> /\ cache_q = <<>> /\ stop_evt = FALSE
    /\ writerPc = "not_started"
    /\ journal = <<>> /\ errors = <<>> /\ interrupted = FALSE
    /\ hist = NoHist
CacheIdle == cacheFile = <<>> /\ cache = EmptyDict /\ mainPc = "idle" /\ RunIdle
AbsentFile == [exists |-> FALSE, ver |-> 0, n |-> 0]
WaIdle ==
    /\ fs = [p \in {"out", "tmp"} |-> AbsentFile]
    /\ waPc = "idle"
    /\ waVer = 0
SelIdle == sel_in = <<>> /\ sel_out = {} /\ selPc = "idle"
RowsIdle == rows_in = <<>> /\ rows_out = <<>> /\ rowsPc = "idle"
BoIdle == bo_pc = "idle" /\ bo_calls = <<>> /\ bo_delay = 0 /\ bo_sleeps = <<>> /\ bo_ret = <<>>
BudIdle == bud_in = <<>> /\ bud_query = <<>> /\ bud_cache = <<>> /\ bud_rd = <<>> /\ bud_pc = "idle"
SlIdle == sl_file = <<>> /\ sl_lock = 0 /\ sl_pc = <<>> /\ sl_buf = <<>> /\ sl_n = <<>>
ExtIdle == WaIdle /\ SelIdle /\ RowsIdle /\ BoIdle /\ BudIdle /\ SlIdle
ConsIdle == cons_in = None /\ cons_out = <<>>
CdnIdle == cdn_in = None /\ cdn_out = None
ShardIdle == all_csvs = <<>> /\ SHARD_TOTAL = 1 /\ my_jobs = <<>>
TbIdle ==
    /\ clock = 0 /\ tb_tokens = 0 /\ tb_last = 0
    /\ w_pc = <<>> /\ w_now = <<>> /\ w_wake = <<>>
    /\ acq_log = <<>> /\ lookup_log = <<>>

InitLoad ==
    /\ cacheFile \in SeqsUpTo(LoadLines, MaxLogLen)
    /\ cache = EmptyDict
    /\ mainPc = "load"
    /\ RunIdle /\ ConsIdle /\ CdnIdle /\ ShardIdle /\ TbIdle
    /\ ExtIdle

\* main(), line 412: cache = load_cache(RDAP_CACHE); an exception leaves main().
LoadCache ==
    /\ mainPc = "load"
    /\ IF Decodes(cacheFile)
       THEN cache' = load_cache(cacheFile) /\ mainPc' = "discover"
       ELSE cache' = cache /\ mainPc' = Raised
    /\ hist' = [hist EXCEPT !.log0 = Len(cacheFile)]
    /\ UNCHANGED <<cacheFile, pureVars, tbVars, cfg, job_ips, out_exists, file_i,
                   to_query, futs, completed, cur, rows, cache_q, stop_evt, writerPc,
                   journal, errors, interrupted>>
    /\ UNCHANGED extVars

NextLoad == LoadCache
SpecLoad == InitLoad /\ [][NextLoad]_vars

\* What the reload is claimed to give: the keys of the well-formed records, each
\* with the data of the last such record.
WellFormed(line) == line.kind = "rec"
LastRecordIdx(lines, k) ==
    CHOOSE i \in 1..Len(lines) :
        /\ WellFormed(lines[i]) /\ Str(lines[i].ip) = k
        /\ \A j \in (i+1)..Len(lines) :
               ~(WellFormed(lines[j]) /\ Str(lines[j].ip) = k)
LastWriteWinsMap(lines) ==
    LET keys == {Str(lines[i].ip) : i \in {j \in 1..Len(lines) : WellFormed(lines[j])}}
    IN [k \in keys |-> lines[LastRecordIdx(lines, k)].data]

\* C4: for any log of well-formed records and malformed lines, load_cache returns
\* the map of the last well-formed record per key, and no malformed line aborts it.
C4_LoadLastWriteWinsNeverAborts ==
    mainPc # "load" => (mainPc # Raised /\ cache = LastWriteWinsMap(cacheFile))

\* The part of C4 the code keeps: a log that decodes reloads last-write-wins.
LoadLastWriteWinsWhenDecodable ==
    (mainPc # "load" /\ Decodes(cacheFile)) =>
        (mainPc = "discover" /\ cache = LastWriteWinsMap(cacheFile))

(***************************************************************************)
(* consensus_cols, row by row: every Series operation of it is             *)
(* element-wise, so a row's result depends on that row alone.              *)
(***************************************************************************)
\* A cell: a string, or NA (a missing value: None, NaN, <NA>).
NA == "<NA>"
\* No such column in the frame.
Absent == "<absent>"

\* str.upper() on the cell values of the model.
Upper(s) ==
    CASE s = "ru" -> "RU"
      [] s = "ua" -> "UA"
      [] s = "none" -> "NONE"
      [] OTHER -> s

\* _norm_cc_series: astype("string").str.upper(), then the NA-like tokens become "";
\* a missing value stays missing (isin is False of it, so where() keeps it).
norm_cc_series(s) ==
    IF s = NA THEN NA
    ELSE IF Upper(s) \in {"", "NA", "N/A", "NONE", "NULL", "NAN"} THEN ""
    ELSE Upper(s)

\* RUUA = {"RU": "Russia", "UA": "Ukraine"}; isin(RUUA) tests the keys.
RUUA == [RU |-> "Russia", UA |-> "Ukraine"]
IsinRUUA(x) == x \in DOMAIN RUUA

\* Comparison and conjunction of the nullable dtypes: NA propagates through
\* == and !=, and False & NA is False.
Eq3(a, b) == IF a = NA \/ b = NA THEN NA ELSE IF a = b THEN "T" ELSE "F"
Ne3(a, b) == IF a = NA \/ b = NA THEN NA ELSE IF a # b THEN "T" ELSE "F"
And3(p, q) == IF ~p THEN "F" ELSE q

\* (cons, rule) of one row; Raised if a mask used for assignment held NA.
StrictOnlyBug_consensus_cols(row, strict) ==
    LET mm == IF row.countrycode = Absent THEN "" ELSE norm_cc_series(row.countrycode)
        rd == norm_cc_series(row.rdap_net_cc)
        m_both == IsinRUUA(mm) /\ IsinRUUA(rd)
        m_strict == And3(m_both, Eq3(mm, rd))
        m_mm == IsinRUUA(mm) /\ m_strict # "T"
    IN IF m_strict = "T" THEN <<RUUA[mm], "strict">>
       ELSE IF m_mm THEN <<RUUA[mm], "mm_only">>
       ELSE <<NA, "no_ru_ua">>

NoConflictBug_consensus_cols(row, strict) ==
    LET mm == IF row.countrycode = Absent THEN "" ELSE norm_cc_series(row.countrycode)
        rd == norm_cc_series(row.rdap_net_cc)
        m_both == IsinRUUA(mm) /\ IsinRUUA(rd)
        m_strict == And3(m_both, Eq3(mm, rd))
        m_mm == IsinRUUA(mm) /\ m_strict # "T"
        m_rd == IsinRUUA(rd) /\ m_strict # "T" /\ ~m_mm
    IN IF m_strict = "T" THEN <<RUUA[mm], "strict">>
       ELSE IF strict THEN <<NA, "no_ru_ua">>
       ELSE IF m_mm THEN <<RUUA[mm], "mm_only">>
       ELSE IF m_rd THEN <<RUUA[rd], "rdap_only">>
       ELSE <<NA, "no_ru_ua">>

consensus_cols(row, strict) ==
    LET mm == IF row.countrycode = Absent THEN "" ELSE norm_cc_series(row.countrycode)
        rd == norm_cc_series(row.rdap_net_cc)
        cons0 == NA
        rule0 == "no_ru_ua"
        \* 1) strict
        m_both == IsinRUUA(mm) /\ IsinRUUA(rd)
        m_strict == And3(m_both, Eq3(mm, rd))
        cons1 == IF m_strict = "T" THEN RUUA[mm] ELSE cons0
        rule1 == IF m_strict = "T" THEN "strict" ELSE rule0
        \* 2) conflict
        m_conflict == And3(m_both, Ne3(mm, rd))
        rule2 == IF m_conflict = "T" THEN "conflict" ELSE rule1
        \* 3) mm_only
        m_mm == IsinRUUA(mm) /\ m_strict # "T" /\ m_conflict # "T"
        cons3 == IF m_mm THEN RUUA[mm] ELSE cons1
        rule3 == IF m_mm THEN "mm_only" ELSE rule2
        \* 4) rdap_only
        m_rd == IsinRUUA(rd) /\ m_strict # "T" /\ m_conflict # "T" /\ ~m_mm
        cons4 == IF m_rd THEN RUUA[rd] ELSE cons3
        rule4 == IF m_rd THEN "rdap_only" ELSE rule3
    IN IF m_strict = NA THEN <<NA, Raised>>
       ELSE IF strict THEN <<cons1, rule1>>
       ELSE IF m_conflict = NA THEN <<NA, Raised>>
       ELSE <<cons4, rule4>>

CcCells == {NA, "", "RU", "ru", "UA", "ua", "FR", "none"}


InitConsensus ==
    /\ cons_in \in [countrycode : CcCells \cup {Absent}, rdap_net_cc : CcCells,
                    STRICT_ONLY : BOOLEAN]
    /\ cons_out = <<>>
    /\ CacheIdle /\ CdnIdle /\ ShardIdle /\ TbIdle
    /\ ExtIdle

\* process_csv, lines 401-403: the two consensus columns of a row of `out`.
Consensus ==
    /\ cons_out = <<>>
    /\ cons_out' = consensus_cols(cons_in, cons_in.STRICT_ONLY)
    /\ UNCHANGED <<cacheFile, cache, mainPc, cons_in, cdn_in, cdn_out,
                   all_csvs, SHARD_TOTAL, my_jobs, tbVars, runVars>>
    /\ UNCHANGED extVars

NextConsensus == Consensus
SpecConsensus == InitConsensus /\ [][NextConsensus]_vars

\* The normalised pair the rules are stated on: empty, RU, UA or other.
NormCls(cell) ==
    IF cell \in {NA, Absent} THEN ""
    ELSE IF Upper(cell) \in {"", "NA", "N/A", "NONE", "NULL", "NAN"} THEN ""
    ELSE Upper(cell)
Tracked(x) == x \in {"RU", "UA"}
Label(x) == IF x = "RU" THEN "Russia" ELSE "Ukraine"
PrecedenceTable(d, r) ==
    CASE Tracked(d) /\ Tracked(r) /\ d = r -> <<Label(d), "strict">>
      [] Tracked(d) /\ Tracked(r) /\ d # r -> <<NA, "conflict">>
      [] Tracked(d) /\ ~Tracked(r) -> <<Label(d), "mm_only">>
      [] ~Tracked(d) /\ Tracked(r) -> <<Label(r), "rdap_only">>
      [] OTHER -> <<NA, "no_ru_ua">>

\* C7: in non-strict mode every pair of codes gets exactly the rule and label of
\* the precedence table (strict, conflict, mm_only, rdap_only, no_ru_ua), and the
\* label is set exactly under strict, mm_only and rdap_only, to Russia or Ukraine.
C7_ConsensusPrecedence ==
    (cons_out # <<>> /\ ~cons_in.STRICT_ONLY) =>
        /\ cons_out = PrecedenceTable(NormCls(cons_in.countrycode),
                                      NormCls(cons_in.rdap_net_cc))
        /\ (cons_out[1] # NA) <=> (cons_out[2] \in {"strict", "mm_only", "rdap_only"})
        /\ cons_out[1] \in {NA, "Russia", "Ukraine"}

C7_Witness ==
    /\ cons_out = <<NA, "conflict">>
    /\ cons_in = [countrycode |-> "ru", rdap_net_cc |-> "UA", STRICT_ONLY |-> FALSE]

\* C8: in strict-only mode the rule is strict, with the shared label, when both
\* codes are tracked and equal, and no_ru_ua with no label otherwise.
C8_StrictOnly ==
    (cons_out # <<>> /\ cons_in.STRICT_ONLY) =>
        LET d == NormCls(cons_in.countrycode)
            r == NormCls(cons_in.rdap_net_cc)
        IN cons_out = IF Tracked(d) /\ Tracked(r) /\ d = r
                      THEN <<Label(d), "strict">>
                      ELSE <<NA, "no_ru_ua">>

C8_Witness ==
    /\ cons_out = <<NA, "no_ru_ua">>
    /\ cons_in = [countrycode |-> "RU", rdap_net_cc |-> NA, STRICT_ONLY |-> TRUE]

(***************************************************************************)
(* exclude_cdn, row by row.  Text is a sequence of characters.             *)
(***************************************************************************)
LowerCh(c) ==
    CASE c = "A" -> "a"
      [] c = "C" -> "c"
      [] c = "D" -> "d"
      [] OTHER -> c
Lower(t) == [i \in 1..Len(t) |-> LowerCh(t[i])]

\* re.search of one escaped keyword, re.I: the keyword occurs in the text, case ignored.
SearchKey(key, t) ==
    \E i \in 1..(Len(t) - Len(key) + 1) :
        Lower(SubSeq(t, i, i + Len(key) - 1)) = Lower(key)
\* _cdn_dom_re / _cdn_org_re: "|".join(map(re.escape, keys)), re.I;
\* str.contains(..., na=False) is False of a missing value.
StrContains(keys, cell) ==
    IF cell = <<NA>> THEN FALSE ELSE \E k \in keys : SearchKey(k, cell)

\* The configured lists (short stand-ins for "cdn", "aws", "ddos guard" and 13335).
CDN_DOMAIN_KEYS == {<<"c", "d">>}
CDN_ORG_KEYS == {<<"a", "w">>, <<"d", " ", "g">>}
CDN_ASNS == {13335}

\* A missing cell and a missing column, as text cells.
NaCell == <<NA>>
AbsentCol == <<Absent>>

\* pd.to_numeric(asn, errors="coerce").astype("Int64") of one cell.
to_numeric(cell) ==
    CASE cell.kind = "int" -> cell.v
      [] cell.kind = "str" -> cell.v       \* a numeric string
      [] OTHER -> -1                       \* junk or missing: <NA>

\* astype("string").fillna("").agg(" ".join, axis=1) over the columns present.
RECURSIVE JoinCols(_, _)
JoinCols(row, cols) ==
    IF cols = <<>> THEN <<>>
    ELSE LET c == Head(cols)
             v == IF row[c] = NaCell THEN <<>> ELSE row[c]
         IN IF Len(cols) = 1 THEN v ELSE v \o <<" ">> \o JoinCols(row, Tail(cols))

OrgCols(row, names) == SelectSeq(names, LAMBDA c : row[c] # AbsentCol)

\* TRUE when the row is kept (mask), FALSE when it is dropped.
NoIspBug_exclude_cdn(row) ==
    LET m_dom == IF row.domain = AbsentCol THEN FALSE
                 ELSE StrContains(CDN_DOMAIN_KEYS, row.domain)
        m_asn == IF row.asnum.kind = "absent" THEN FALSE
                 ELSE to_numeric(row.asnum) \in CDN_ASNS
        org_cols == OrgCols(row, <<"asorg", "org", "rdap_org">>)
        m_org == IF org_cols # <<>>
                 THEN StrContains(CDN_ORG_KEYS, JoinCols(row, org_cols))
                 ELSE FALSE
    IN ~(m_dom \/ m_asn \/ m_org)

exclude_cdn(row) ==
    LET m_dom == IF row.domain = AbsentCol THEN FALSE
                 ELSE StrContains(CDN_DOMAIN_KEYS, row.domain)
        m_asn == IF row.asnum.kind = "absent" THEN FALSE
                 ELSE to_numeric(row.asnum) \in CDN_ASNS
        org_cols == OrgCols(row, <<"asorg", "org", "isp", "rdap_org">>)
        m_org == IF org_cols # <<>>
                 THEN StrContains(CDN_ORG_KEYS, JoinCols(row, org_cols))
                 ELSE FALSE
    IN ~(m_dom \/ m_asn \/ m_org)

DomainCells == {AbsentCol, NaCell, <<"x">>, <<"c", "d">>, <<"x", "C", "D">>,
                <<"c", "x", "d">>}
OrgCells == {AbsentCol, NaCell, <<"x">>, <<"A", "w">>, <<"d">>, <<"g">>}
RdapOrgCells == {AbsentCol, NaCell, <<"x">>, <<"A", "w">>}
AsnCells == {[kind |-> "absent", v |-> 0], [kind |-> "na", v |-> 0],
             [kind |-> "junk", v |-> 0], [kind |-> "int", v |-> 13335],
             [kind |-> "str", v |-> 13335], [kind |-> "int", v |-> 7]}

InitCdn ==
    /\ cdn_in \in [domain : DomainCells, asnum : AsnCells, asorg : OrgCells,
                   org : OrgCells, isp : OrgCells, rdap_org : RdapOrgCells]
    /\ cdn_out = None
    /\ CacheIdle /\ ConsIdle /\ ShardIdle /\ TbIdle
    /\ ExtIdle

\* process_csv, line 340: df = exclude_cdn(df), seen from one row.
ExcludeCdn ==
    /\ cdn_out = None
    /\ cdn_out' = IF exclude_cdn(cdn_in) THEN "kept" ELSE "excluded"
    /\ UNCHANGED <<cacheFile, cache, mainPc, cons_in, cons_out, cdn_in,
                   all_csvs, SHARD_TOTAL, my_jobs, tbVars, runVars>>
    /\ UNCHANGED extVars

NextCdn == ExcludeCdn
SpecCdn == InitCdn /\ [][NextCdn]_vars

\* The three signals as the filter is described.
Present(cell) == cell # AbsentCol /\ cell # NaCell
DomainSignal(row) ==
    Present(row.domain) /\ \E k \in CDN_DOMAIN_KEYS : SearchKey(k, row.domain)
AsnSignal(row) == row.asnum.kind \in {"int", "str"} /\ row.asnum.v \in CDN_ASNS
\* the fields named, joined by single blanks, a missing value counting as empty
OrgText(row, names) ==
    LET have == SelectSeq(names, LAMBDA c : row[c] # AbsentCol)
        txt[i \in 0..Len(have)] ==
            IF i = 0 THEN <<>>
            ELSE (IF i = 1 THEN <<>> ELSE txt[i-1] \o <<" ">>)
                 \o (IF Present(row[have[i]]) THEN row[have[i]] ELSE <<>>)
    IN txt[Len(have)]
OrgSignal(row, names) ==
    \E k \in CDN_ORG_KEYS : SearchKey(k, OrgText(row, names))

\* C9 as claimed: a row is excluded iff its domain holds a domain keyword, its ASN
\* is in the exclusion set, or the concatenation of its source-provided
\* organization/ISP fields (asorg, org, isp) holds an organization keyword.
C9_CdnFilterSourceOrgFields ==
    cdn_out # None =>
        ((cdn_out = "excluded") <=>
            (DomainSignal(cdn_in) \/ AsnSignal(cdn_in)
             \/ OrgSignal(cdn_in, <<"asorg", "org", "isp">>)))

\* C9 amended: the organization text is the concatenation of asorg, org, isp and,
\* when the input carries one, rdap_org.
C9_CdnFilterAllOrgColumns ==
    cdn_out # None =>
        ((cdn_out = "excluded") <=>
            (DomainSignal(cdn_in) \/ AsnSignal(cdn_in)
             \/ OrgSignal(cdn_in, <<"asorg", "org", "isp", "rdap_org">>)))

\* A row that only its rdap_org column marks is excluded.
C9_Witness ==
    /\ cdn_out = "excluded"
    /\ ~DomainSignal(cdn_in) /\ ~AsnSignal(cdn_in)
    /\ ~OrgSignal(cdn_in, <<"asorg", "org", "isp">>)
    /\ cdn_in.rdap_org = <<"A", "w">> /\ cdn_in.isp = NaCell

(***************************************************************************)
(* The shard assignment of main(), lines 414-427, for every shard index.   *)
(***************************************************************************)
MaxFiles == 4
MaxShards == 3

\* sorted(...): the discovered paths in ascending order.
RECURSIVE sorted(_)
sorted(S) ==
    IF S = {} THEN <<>>
    ELSE LET lo == CHOOSE x \in S : \A y \in S : x <= y
         IN <<lo>> \o sorted(S \ {lo})

\* [p for i, p in enumerate(all_csvs) if (i % max(1, SHARD_TOTAL)) == SHARD_IDX]
\* (enumerate counts from 0, a sequence from 1).
WrongModulus_shard_jobs(csvs, total, idx) ==
    SelectSeq(csvs, LAMBDA p :
        \E i \in 1..Len(csvs) : csvs[i] = p /\ ((i - 1) % (Max(1, total) + 1)) = idx)

shard_jobs(csvs, total, idx) ==
    LET keep == {i \in 1..Len(csvs) : ((i - 1) % Max(1, total)) = idx}
        pick[i \in 0..Len(csvs)] ==
            IF i = 0 THEN <<>>
            ELSE IF i \in keep THEN Append(pick[i-1], csvs[i]) ELSE pick[i-1]
    IN pick[Len(csvs)]

ShardIdxs(total) == 0..(Max(1, total) - 1)

InitShard ==
    /\ all_csvs \in {sorted(S) : S \in SUBSET (1..MaxFiles)}
    /\ SHARD_TOTAL \in 0..MaxShards
    /\ my_jobs = [idx \in ShardIdxs(SHARD_TOTAL) |-> [done |-> FALSE, jobs |-> <<>>]]
    /\ CacheIdle /\ ConsIdle /\ CdnIdle /\ TbIdle
    /\ ExtIdle

\* The process started with SHARD_IDX = idx computes its my_jobs.
ShardAssign(idx) ==
    /\ ~my_jobs[idx].done
    /\ my_jobs' = [my_jobs EXCEPT ![idx] =
                      [done |-> TRUE, jobs |-> shard_jobs(all_csvs, SHARD_TOTAL, idx)]]
    /\ UNCHANGED <<cacheFile, cache, mainPc, cons_in, cons_out, cdn_in, cdn_out,
                   all_csvs, SHARD_TOTAL, tbVars, runVars>>
    /\ UNCHANGED extVars

NextShard == \E idx \in DOMAIN my_jobs : ShardAssign(idx)
SpecShard == InitShard /\ [][NextShard]_vars

Range(q) == {q[i] : i \in 1..Len(q)}
Assigned(idx) == Range(my_jobs[idx].jobs)
AllAssigned == \A idx \in DOMAIN my_jobs : my_jobs[idx].done

\* C10: for a shard total N >= 1 and any file list, the assignments of the indices
\* 0..N-1 are pairwise disjoint, their union is the whole sorted list, and every
\* file is in exactly one of them (once).
C10_ShardsPartitionFiles ==
    SHARD_TOTAL >= 1 =>
        /\ \A i, j \in DOMAIN my_jobs : i # j => Assigned(i) \cap Assigned(j) = {}
        /\ \A i \in DOMAIN my_jobs :
               /\ Assigned(i) \subseteq Range(all_csvs)
               /\ Len(my_jobs[i].jobs) = Cardinality(Assigned(i))
        /\ AllAssigned =>
               \A p \in Range(all_csvs) :
                   Cardinality({i \in DOMAIN my_jobs : p \in Assigned(i)}) = 1

C10_Witness ==
    /\ SHARD_TOTAL = 3 /\ AllAssigned /\ Len(all_csvs) = 4
    /\ my_jobs[0].jobs = <<all_csvs[1], all_csvs[4]>>

(***************************************************************************)
(* The token bucket and the pool workers that call it from rdap_lookup.    *)
(* Time is counted in ticks and tokens in 1/TicksPerToken of a token, so   *)
(* that (now - _tb_last) * RDAP_QPS is the number of ticks elapsed and     *)
(* need / RDAP_QPS is a number of ticks.                                   *)
(***************************************************************************)
\* RDAP_BURST, and 1 / RDAP_QPS in ticks, of the configuration checked.
RDAP_BURST == 2
TicksPerToken == 2
\* The pool width (RDAP_WORKERS), the lookups submitted, and the last tick.
NumWorkers == 2
MaxTasks == 4
MaxClock == 4

Workers == 1..NumWorkers
OneToken == TicksPerToken
Capacity == RDAP_BURST * TicksPerToken

\* The critical section of _rate_limit_token_bucket for a caller whose sample is
\* `now`: <<_tb_tokens, _tb_last, wait>> after it.
NoCapBug_token_bucket(tokens, last, now) ==
    LET add == now - last
        tokens1 == IF add > 0 THEN tokens + add ELSE tokens
        last1 == IF add > 0 THEN now ELSE last
    IN IF tokens1 >= OneToken
       THEN <<tokens1 - OneToken, last1, 0>>
       ELSE <<tokens1, last1, Max(0, OneToken - tokens1)>>

Rewind_token_bucket(tokens, last, now) ==
    LET add == now - last
        tokens1 == IF add # 0 THEN Min(Capacity, tokens + add) ELSE tokens
        last1 == IF add # 0 THEN now ELSE last
    IN IF tokens1 >= OneToken
       THEN <<tokens1 - OneToken, last1, 0>>
       ELSE <<tokens1, last1, Max(0, OneToken - tokens1)>>

token_bucket(tokens, last, now) ==
    LET add == now - last
        tokens1 == IF add > 0 THEN Min(Capacity, tokens + add) ELSE tokens
        last1 == IF add > 0 THEN now ELSE last
    IN IF tokens1 >= OneToken
       THEN <<tokens1 - OneToken, last1, 0>>
       ELSE <<tokens1, last1, Max(0, OneToken - tokens1)>>

InitTokenBucket ==
    /\ clock = 0
    /\ tb_tokens = Capacity
    /\ tb_last = 0
    /\ w_pc = [w \in Workers |-> "idle"]
    /\ w_now = [w \in Workers |-> 0]
    /\ w_wake = [w \in Workers |-> [acq |-> 0, wait |-> 0]]
    /\ acq_log = <<>>
    /\ lookup_log = <<>>
    /\ CacheIdle /\ ConsIdle /\ CdnIdle /\ ShardIdle
    /\ ExtIdle

notTb == <<cacheFile, cache, mainPc, pureVars, runVars>>

Tick ==
    /\ clock < MaxClock
    /\ clock' = clock + 1
    /\ UNCHANGED <<tb_tokens, tb_last, w_pc, w_now, w_wake, acq_log, lookup_log, notTb>>
    /\ UNCHANGED extVars

\* Line 217: a worker that took a task samples the time before it has the lock.
Sample(w) ==
    /\ w_pc[w] = "idle"
    /\ Len(acq_log) + Cardinality({v \in Workers : w_pc[v] = "sampled"}) < MaxTasks
    /\ w_pc' = [w_pc EXCEPT ![w] = "sampled"]
    /\ w_now' = [w_now EXCEPT ![w] = clock]
    /\ UNCHANGED <<clock, tb_tokens, tb_last, w_wake, acq_log, lookup_log, notTb>>
    /\ UNCHANGED extVars

\* time.sleep(wait) has returned.
SleepOver(w) == clock >= w_wake[w].acq + w_wake[w].wait

\* Lines 218-228 under _tb_lock, then lines 249-251 of rdap_lookup: with no wait
\* the registry lookup starts at once, otherwise the worker sleeps first.
Acquire(w) ==
    /\ w_pc[w] = "sampled"
    /\ LET r == token_bucket(tb_tokens, tb_last, w_now[w])
       IN /\ tb_tokens' = r[1]
          /\ tb_last' = r[2]
          /\ acq_log' = Append(acq_log, [t |-> clock, now |-> w_now[w], wait |-> r[3]])
          /\ IF r[3] > 0
             THEN /\ w_pc' = [w_pc EXCEPT ![w] = "sleeping"]
                  /\ w_wake' = [w_wake EXCEPT ![w] = [acq |-> clock, wait |-> r[3]]]
                  /\ UNCHANGED lookup_log
             ELSE /\ w_pc' = [w_pc EXCEPT ![w] = "idle"]
                  /\ UNCHANGED w_wake
                  /\ lookup_log' = Append(lookup_log,
                                      [t |-> clock, acq |-> clock, wait |-> 0])
    /\ w_now' = [w_now EXCEPT ![w] = 0]
    /\ UNCHANGED <<clock, notTb>>
    /\ UNCHANGED extVars

\* Lines 250-251: after the sleep the lookup starts; the bucket is not asked again.
WakeAndLookup(w) ==
    /\ w_pc[w] = "sleeping"
    /\ SleepOver(w)
    /\ w_pc' = [w_pc EXCEPT ![w] = "idle"]
    /\ lookup_log' = Append(lookup_log,
                        [t |-> clock, acq |-> w_wake[w].acq, wait |-> w_wake[w].wait])
    /\ w_wake' = [w_wake EXCEPT ![w] = [acq |-> 0, wait |-> 0]]
    /\ UNCHANGED <<clock, tb_tokens, tb_last, w_now, acq_log, notTb>>
    /\ UNCHANGED extVars

NextTokenBucket ==
    \/ Tick
    \/ \E w \in Workers : Sample(w)
    \/ \E w \in Workers : Acquire(w)
    \/ \E w \in Workers : WakeAndLookup(w)
SpecTokenBucket == InitTokenBucket /\ [][NextTokenBucket]_vars

\* The acquires that returned zero wait, as indices of acq_log.
ZeroWait == {i \in 1..Len(acq_log) : acq_log[i].wait = 0}

\* C5: with a full bucket and no time elapsed, the first RDAP_BURST acquires return
\* zero wait and every further one a positive wait; and in any interval of length T
\* at most burst + qps*T acquires return zero wait, whatever the interleaving.
C5_BurstBound ==
    /\ clock = 0 =>
           \A i \in 1..Len(acq_log) : (acq_log[i].wait = 0) <=> (i <= RDAP_BURST)
    /\ \A i, j \in ZeroWait :
           i <= j =>
               Cardinality({k \in ZeroWait : i <= k /\ k <= j}) * TicksPerToken
                   <= Capacity + (acq_log[j].t - acq_log[i].t)

\* What the bucket does keep: the burst while no time has passed, and, counted from
\* the start, at most burst + qps*t zero-wait acquires up to time t.
BurstAtStartAndAnchoredBound ==
    /\ clock = 0 =>
           \A i \in 1..Len(acq_log) : (acq_log[i].wait = 0) <=> (i <= RDAP_BURST)
    /\ \A j \in ZeroWait :
           Cardinality({k \in ZeroWait : k <= j}) * TicksPerToken
               <= Capacity + acq_log[j].t
    /\ \A i \in 1..Len(acq_log) : acq_log[i].wait >= 0 /\ acq_log[i].now <= acq_log[i].t

\* A caller with a sample taken before an idle stretch consumes without moving
\* _tb_last; the stretch is then credited to the next caller.
StaleSampleAdmitted ==
    \E i \in ZeroWait : acq_log[i].now < acq_log[i].t /\ tb_last < acq_log[i].t

\* C6: in any window of length T the process starts at most burst + qps*T registry
\* lookups, for any interleaving of the workers.
C6_LookupRateBound ==
    \A i, j \in 1..Len(lookup_log) :
        i <= j =>
            (j - i + 1) * TicksPerToken
                <= Capacity + (lookup_log[j].t - lookup_log[i].t)

\* The bound is broken with every sample fresh: workers that were told to wait
\* start their lookups after the sleep without a token.
C6_Witness ==
    /\ \A i \in 1..Len(acq_log) : acq_log[i].now = acq_log[i].t
    /\ lookup_log # <<>> /\ lookup_log[Len(lookup_log)].wait > 0
    /\ ~C6_LookupRateBound

\* Every lookup follows one acquire of its task, at once when the wait was zero and
\* no earlier than the wait after the acquire otherwise.
LookupFollowsAcquire ==
    /\ Len(lookup_log) <= Len(acq_log)
    /\ \A i \in 1..Len(lookup_log) :
           /\ lookup_log[i].t >= lookup_log[i].acq + lookup_log[i].wait
           /\ \E k \in 1..Len(acq_log) :
                  /\ acq_log[k].t = lookup_log[i].acq
                  /\ acq_log[k].wait = lookup_log[i].wait

(***************************************************************************)
(* One shard process: main(), process_csv for each assigned file, the pool *)
(* futures, and cache_writer_thread.                                       *)
(***************************************************************************)
\* The assigned files of the process, and Queue(maxsize=10000) scaled down.
NumJobs == 2
QueueMaxsize == 1

Jobs == 1..NumJobs

\* The settings the run reads: RDAP_RETRY_BAD_CACHE, RDAP_RETRY_EMPTY_CC,
\* RDAP_BUDGET and SKIP_IF_EXISTS.
Configs ==
    [RETRY_BAD_CACHE : BOOLEAN, RETRY_EMPTY_CC : BOOLEAN, BUDGET : {0, 1},
     SKIP_IF_EXISTS : BOOLEAN]

\* Lines 353-365: whether the loop reaches the budget test for ip, i.e. whether
\* neither `continue` is taken.
NoRetry_needs_query(c, conf) == c.empty
RetryAll_needs_query(c, conf) == TRUE

needs_query(c, conf) ==
    IF c.empty THEN TRUE
    ELSE LET ok == c.ok
             cc == IF c.rdap_net_cc = None THEN "" ELSE c.rdap_net_cc
         IN IF (~ok) /\ ~conf.RETRY_BAD_CACHE THEN FALSE
            ELSE IF ok /\ cc = "" /\ conf.RETRY_EMPTY_CC THEN TRUE
            ELSE IF ok THEN FALSE
            ELSE TRUE

\* Lines 352-368: the possible to_query lists, as sets.  ips is list(set(...)), whose
\* order is not fixed, so with a budget any `budget` of the eligible IPs may be the
\* ones reached first.
select_to_query(ips, c, conf) ==
    LET eligible == {ip \in ips : needs_query(DictGet(c, ip), conf)}
    IN IF conf.BUDGET = 0 THEN {eligible}
       ELSE {S \in SUBSET eligible :
                Cardinality(S) = Min(conf.BUDGET, Cardinality(eligible))}

\* Line 380: cache[ip] = data.
Dropped_record_result(c, ip, data) == c

record_result(c, ip, data) == DictPut(c, ip, data)

\* Line 164: the loop condition of the writer.
StopOnly_writer_continues(stop, q) == ~stop
ExitsOnEmpty_writer_continues(stop, q) == q # <<>>

writer_continues(stop, q) == (~stop) \/ q # <<>>

Pending == [done |-> FALSE, data |-> EmptyData]
Done(data) == [done |-> TRUE, data |-> data]

\* The logs a run may start from: none, or one record of an earlier run.
InitLogs ==
    {<<>>} \cup {<<WrittenLine(1, d)>> : d \in {OkEntry("RU"), FailEntry}}
\* The ips of a file: none left after the filter, one, or two.
FileIps == {{}, {1}, {1, 2}}
\* The ips of all assigned files together, counted with repetition.
MaxIpRefs == 2
RECURSIVE SumIps(_, _)
SumIps(f, n) == IF n = 0 THEN 0 ELSE Cardinality(f[n]) + SumIps(f, n - 1)

Init ==
    /\ cacheFile \in InitLogs
    /\ cache = EmptyDict
    /\ mainPc = "start"
    /\ cfg \in Configs
    /\ job_ips \in [Jobs -> FileIps]
    /\ SumIps(job_ips, NumJobs) <= MaxIpRefs
    /\ out_exists \in [Jobs -> BOOLEAN]
    /\ \A j \in Jobs : out_exists[j] => cfg.SKIP_IF_EXISTS
    /\ file_i = 0
    /\ to_query = {} /\ futs = <<>> /\ completed = <<>> /\ cur = NoItem
    /\ rows = <<>> /\ cache_q = <<>> /\ stop_evt = FALSE
    /\ writerPc = "not_started"
    /\ journal = <<>> /\ errors = <<>> /\ interrupted = FALSE
    /\ hist = [NoHist EXCEPT !.out0 = out_exists, !.log0 = Len(cacheFile)]
    /\ ConsIdle /\ CdnIdle /\ ShardIdle /\ TbIdle
    /\ ExtIdle

notRun == <<pureVars, tbVars>>

\* Lines 407-409: without the input root the run ends with sys.exit(1).
CheckPartDir ==
    /\ mainPc = "start"
    /\ \E exists \in BOOLEAN :
           /\ mainPc' = IF exists THEN "load" ELSE "exit1"
           /\ hist' = [hist EXCEPT !.fatal = IF exists THEN @ ELSE "no_part_dir"]
    /\ UNCHANGED <<cacheFile, cache, cfg, job_ips, out_exists, file_i, to_query, futs,
                   completed, cur, rows, cache_q, stop_evt, writerPc, journal,
                   errors, interrupted, notRun>>
    /\ UNCHANGED extVars

\* Lines 415-420: the CSVs of the year directories if there are any, else the CSVs
\* directly under PART_DIR.
NoFatal_find_csvs(nested, flat) == IF nested THEN "nested" ELSE "flat"

find_csvs(nested, flat) == IF nested THEN "nested" ELSE IF flat THEN "flat" ELSE None

\* Lines 414-428: the files are found and my_jobs is fixed, or there is none and
\* the run ends with sys.exit(1).
Discover ==
    /\ mainPc = "discover"
    /\ \E nested \in BOOLEAN, flat \in BOOLEAN :
           /\ mainPc' = IF find_csvs(nested, flat) = None THEN "exit1" ELSE "start_writer"
           /\ hist' = [hist EXCEPT !.fatal = IF nested \/ flat THEN @ ELSE "no_csv"]
    /\ UNCHANGED <<cacheFile, cache, cfg, job_ips, out_exists, file_i, to_query, futs,
                   completed, cur, rows, cache_q, stop_evt, writerPc, journal,
                   errors, interrupted, notRun>>
    /\ UNCHANGED extVars

\* Lines 431-433.
StartWriter ==
    /\ mainPc = "start_writer"
    /\ writerPc' = "running"
    /\ mainPc' = "loop"
    /\ UNCHANGED <<cacheFile, cache, cfg, job_ips, out_exists, file_i, to_query, futs,
                   completed, cur, rows, cache_q, stop_evt, journal,
                   errors, interrupted, hist, notRun>>
    /\ UNCHANGED extVars

\* Line 445: if SKIP_IF_EXISTS and out_path.exists().
NeverSkip_skips(conf, exists) == FALSE

skips(conf, exists) == conf.SKIP_IF_EXISTS /\ exists

\* Lines 440-449: the next file of my_jobs, skipped if its output exists; after the
\* last one the loop ends.
NextFile ==
    /\ mainPc = "loop"
    /\ IF file_i = NumJobs
       THEN /\ mainPc' = "stop"
            /\ UNCHANGED <<file_i, journal>>
       ELSE /\ file_i' = file_i + 1
            /\ IF skips(cfg, out_exists[file_i + 1])
               THEN /\ journal' = Append(journal,
                                     [file |-> file_i + 1, status |-> "skip_exists"])
                    /\ mainPc' = "loop"
               ELSE /\ mainPc' = "process"
                    /\ UNCHANGED journal
    /\ UNCHANGED <<cacheFile, cache, cfg, job_ips, out_exists, to_query, futs,
                   completed, cur, rows, cache_q, stop_evt, writerPc,
                   errors, interrupted, hist, notRun>>
    /\ UNCHANGED extVars

\* Lines 330-376: the file is read and filtered, to_query is chosen and every IP of
\* it is submitted to the pool.
Process ==
    /\ mainPc = "process"
    /\ \E tq \in select_to_query(job_ips[file_i], cache, cfg) :
           /\ to_query' = tq
           /\ futs' = [ip \in tq |-> Pending]
           /\ mainPc' = IF tq = {} THEN "merge" ELSE "collect"
    /\ completed' = <<>>
    /\ UNCHANGED <<cacheFile, cache, cfg, job_ips, out_exists, file_i, cur, rows,
                   cache_q, stop_evt, writerPc, journal, errors,
                   interrupted, hist, notRun>>
    /\ UNCHANGED extVars

\* A pool worker returns from rdap_lookup(ip): the future is done.
WritesMap_Lookup(ip) ==
    /\ ip \in DOMAIN futs
    /\ ~futs[ip].done
    /\ \E data \in LookupResults :
           /\ futs' = [futs EXCEPT ![ip] = Done(data)]
           /\ cache' = DictPut(cache, ip, data)
           /\ hist' = [hist EXCEPT !.performed =
                          @ \cup {[file |-> file_i, ip |-> ip, data |-> data]}]
    /\ completed' = Append(completed, ip)
    /\ UNCHANGED <<cacheFile, mainPc, cfg, job_ips, out_exists, file_i, to_query,
                   cur, rows, cache_q, stop_evt, writerPc, journal,
                   errors, interrupted, notRun>>
    /\ UNCHANGED extVars

Lookup(ip) ==
    /\ ip \in DOMAIN futs
    /\ ~futs[ip].done
    /\ \E data \in LookupResults :
           /\ futs' = [futs EXCEPT ![ip] = Done(data)]
           /\ hist' = [hist EXCEPT !.performed =
                          @ \cup {[file |-> file_i, ip |-> ip, data |-> data]}]
    /\ completed' = Append(completed, ip)
    /\ UNCHANGED <<cacheFile, cache, mainPc, cfg, job_ips, out_exists, file_i, to_query,
                   cur, rows, cache_q, stop_evt, writerPc, journal,
                   errors, interrupted, notRun>>
    /\ UNCHANGED extVars

\* Lines 377-380: as_completed yields the next finished future and its result goes
\* into the in-memory cache; when every future was yielded the pool is left.
Collect ==
    /\ mainPc = "collect"
    /\ IF \A ip \in to_query : futs[ip].done /\ ip \notin {completed[i] : i \in 1..Len(completed)}
       THEN /\ mainPc' = "merge"
            /\ UNCHANGED <<cache, cur, completed, hist>>
       ELSE /\ completed # <<>>
            /\ LET ip == Head(completed)
                   data == futs[ip].data
               IN /\ cache' = record_result(cache, ip, data)
                  /\ cur' = [ip |-> ip, data |-> data]
                  /\ hist' = [hist EXCEPT !.recorded =
                                 Append(@, [ip |-> ip, data |-> data])]
            /\ completed' = Tail(completed)
            /\ mainPc' = "put"
    /\ UNCHANGED <<cacheFile, cfg, job_ips, out_exists, file_i, to_query, futs, rows,
                   cache_q, stop_evt, writerPc, journal, errors,
                   interrupted, notRun>>
    /\ UNCHANGED extVars

\* Line 381: _cache_q.put((ip, data)), which blocks while the queue is full.  The
\* loop variables ip and data are rebound by the next iteration.
NoBlock_Put ==
    /\ mainPc = "put"
    /\ cache_q' = IF Len(cache_q) < QueueMaxsize THEN Append(cache_q, cur) ELSE cache_q
    /\ hist' = [hist EXCEPT !.enqueued = Append(@, cur)]
    /\ cur' = NoItem
    /\ mainPc' = "collect"
    /\ UNCHANGED <<cacheFile, cache, cfg, job_ips, out_exists, file_i, to_query, futs,
                   completed, rows, stop_evt, writerPc, journal,
                   errors, interrupted, notRun>>
    /\ UNCHANGED extVars

Put ==
    /\ mainPc = "put"
    /\ Len(cache_q) < QueueMaxsize
    /\ cache_q' = Append(cache_q, cur)
    /\ hist' = [hist EXCEPT !.enqueued = Append(@, cur)]
    /\ cur' = NoItem
    /\ mainPc' = "collect"
    /\ UNCHANGED <<cacheFile, cache, cfg, job_ips, out_exists, file_i, to_query, futs,
                   completed, rows, stop_evt, writerPc, journal,
                   errors, interrupted, notRun>>
    /\ UNCHANGED extVars

\* Lines 385-403: one row per ip, read from the cache, merged into the frame.  With
\* no ip at all the right frame has no `src` column and the merge raises KeyError.
Merge ==
    /\ mainPc = "merge"
    /\ IF job_ips[file_i] = {}
       THEN /\ mainPc' = "file_error"
            /\ UNCHANGED rows
       ELSE /\ rows' = [ip \in job_ips[file_i] |-> DictGet(cache, ip)]
            /\ mainPc' = "write_tmp"
    /\ UNCHANGED <<cacheFile, cache, cfg, job_ips, out_exists, file_i, to_query, futs,
                   completed, cur, cache_q, stop_evt, writerPc, journal,
                   errors, interrupted, hist, notRun>>
    /\ UNCHANGED extVars

\* write_atomic, line 134: the frame is written to the .tmp path.
WriteTmp ==
    /\ mainPc = "write_tmp"
    /\ mainPc' = "replace"
    /\ UNCHANGED <<cacheFile, cache, runVars, notRun>>
    /\ UNCHANGED extVars

\* write_atomic, line 135: os.replace(tmp, path).
NoRename_Replace ==
    /\ mainPc = "replace"
    /\ mainPc' = "journal_ok"
    /\ UNCHANGED <<cacheFile, cache, runVars, notRun>>
    /\ UNCHANGED extVars

Replace ==
    /\ mainPc = "replace"
    /\ out_exists' = [out_exists EXCEPT ![file_i] = TRUE]
    /\ mainPc' = "journal_ok"
    /\ UNCHANGED <<cacheFile, cache, cfg, job_ips, file_i, to_query, futs, completed,
                   cur, rows, cache_q, stop_evt, writerPc, journal,
                   errors, interrupted, hist, notRun>>
    /\ UNCHANGED extVars

\* Line 455: process_csv has returned (its locals are gone) and the file is
\* journaled ok.
JournalOk ==
    /\ mainPc = "journal_ok"
    /\ journal' = Append(journal, [file |-> file_i, status |-> "ok"])
    /\ mainPc' = "loop"
    /\ to_query' = {} /\ futs' = <<>> /\ completed' = <<>> /\ rows' = <<>>
    /\ UNCHANGED <<cacheFile, cache, cfg, job_ips, out_exists, file_i,
                   cur, cache_q, stop_evt, writerPc,
                   errors, interrupted, hist, notRun>>
    /\ UNCHANGED extVars

\* Reading the file (line 330: the file is unreadable; line 344: it has no src
\* column) or writing the output (to_csv, os.replace) raises an Exception, which
\* unwinds process_csv or write_atomic to the except clause of line 456.
FileRaises ==
    /\ mainPc \in {"process", "write_tmp", "replace"}
    /\ mainPc' = "file_error"
    /\ UNCHANGED <<cacheFile, cache, runVars, notRun>>
    /\ UNCHANGED extVars

\* Lines 456-459: the except clause of the file.  (In AbortBug_FileError the
\* exception is not caught and leaves the loop.)
AbortBug_FileError ==
    /\ mainPc = "file_error"
    /\ mainPc' = "stop"
    /\ to_query' = {} /\ futs' = <<>> /\ completed' = <<>> /\ rows' = <<>>
    /\ UNCHANGED <<cacheFile, cache, cfg, job_ips, out_exists, file_i,
                   cur, cache_q, stop_evt, writerPc, journal, errors,
                   interrupted, hist, notRun>>
    /\ UNCHANGED extVars

FileError ==
    /\ mainPc = "file_error"
    /\ errors' = Append(errors, file_i)
    /\ journal' = Append(journal, [file |-> file_i, status |-> "error"])
    /\ mainPc' = "loop"
    /\ to_query' = {} /\ futs' = <<>> /\ completed' = <<>> /\ rows' = <<>>
    /\ UNCHANGED <<cacheFile, cache, cfg, job_ips, out_exists, file_i,
                   cur, cache_q, stop_evt, writerPc,
                   interrupted, hist, notRun>>
    /\ UNCHANGED extVars

\* KeyboardInterrupt in the main thread while it is inside the try of lines
\* 437-461.  `except Exception` does not catch it.  Inside the pool's `with` block
\* the executor's __exit__ runs first and waits for every submitted future;
\* elsewhere the exception unwinds process_csv (its locals are gone) and reaches
\* the finally of line 462.
Interrupt ==
    /\ ~interrupted
    /\ mainPc \in {"loop", "process", "collect", "put", "merge", "write_tmp",
                   "replace", "journal_ok", "file_error"}
    /\ interrupted' = TRUE
    /\ IF mainPc \in {"collect", "put"}
       THEN /\ mainPc' = "shutdown"
            /\ UNCHANGED <<to_query, futs, completed, rows>>
       ELSE /\ mainPc' = "stop"
            /\ to_query' = {} /\ futs' = <<>> /\ completed' = <<>> /\ rows' = <<>>
    /\ cur' = NoItem
    /\ UNCHANGED <<cacheFile, cache, cfg, job_ips, out_exists, file_i,
                   cache_q, stop_evt, writerPc,
                   journal, errors, hist, notRun>>
    /\ UNCHANGED extVars

\* ThreadPoolExecutor.__exit__: shutdown(wait=True) returns when every submitted
\* lookup has run; nothing reads the results, and process_csv is unwound.
Shutdown ==
    /\ mainPc = "shutdown"
    /\ \A ip \in to_query : futs[ip].done
    /\ mainPc' = "stop"
    /\ to_query' = {} /\ futs' = <<>> /\ completed' = <<>> /\ rows' = <<>>
    /\ UNCHANGED <<cacheFile, cache, cfg, job_ips, out_exists, file_i, cur,
                   cache_q, stop_evt, writerPc,
                   journal, errors, interrupted, hist, notRun>>
    /\ UNCHANGED extVars

\* Line 463.
Stop ==
    /\ mainPc = "stop"
    /\ stop_evt' = TRUE
    /\ mainPc' = "join"
    /\ UNCHANGED <<cacheFile, cache, cfg, job_ips, out_exists, file_i, to_query, futs,
                   completed, cur, rows, cache_q, writerPc, journal,
                   errors, interrupted, hist, notRun>>
    /\ UNCHANGED extVars

\* Line 464: writer_t.join() returns once the thread has ended.
Join ==
    /\ mainPc = "join"
    /\ writerPc = "exited"
    /\ mainPc' = "done"
    /\ UNCHANGED <<cacheFile, cache, runVars, notRun>>
    /\ UNCHANGED extVars

\* Lines 164-175, one pass of the writer's loop: the test; _cache_q.get, which
\* on Empty leads back to the test; and for an item taken, its record appended
\* under the file lock and flushed.  When the test fails the thread ends.
WriterStep ==
    /\ writerPc = "running"
    /\ IF ~writer_continues(stop_evt, cache_q)
       THEN /\ writerPc' = "exited"
            /\ UNCHANGED <<cacheFile, cache_q>>
       ELSE /\ cache_q # <<>>
            /\ cacheFile' = Append(cacheFile,
                                WrittenLine(Head(cache_q).ip, Head(cache_q).data))
            /\ cache_q' = Tail(cache_q)
            /\ UNCHANGED writerPc
    /\ UNCHANGED <<cache, mainPc, cfg, job_ips, out_exists, file_i, to_query,
                   futs, completed, cur, rows, stop_evt, journal, errors, interrupted,
                   hist, notRun>>
    /\ UNCHANGED extVars

Next ==
    \/ CheckPartDir
    \/ LoadCache
    \/ Discover
    \/ StartWriter
    \/ NextFile
    \/ Process
    \/ \E ip \in IpKeys : Lookup(ip)
    \/ Collect
    \/ Put
    \/ Merge
    \/ WriteTmp
    \/ Replace
    \/ JournalOk
    \/ FileRaises
    \/ FileError
    \/ Interrupt
    \/ Shutdown
    \/ Stop
    \/ Join
    \/ WriterStep
Spec == Init /\ [][Next]_vars

\* ---- Properties of the run ----

\* The last result recorded for key k.
HasRecorded(k) == \E i \in 1..Len(hist.recorded) : hist.recorded[i].ip = k
LastRecorded(k) ==
    LET last == CHOOSE i \in 1..Len(hist.recorded) :
                    /\ hist.recorded[i].ip = k
                    /\ \A j \in (i + 1)..Len(hist.recorded) : hist.recorded[j].ip # k
    IN hist.recorded[last].data

\* What the writer has appended to the log since load_cache read it.
Appended == SubSeq(cacheFile, hist.log0 + 1, Len(cacheFile))
AsLines(q) == [i \in 1..Len(q) |-> WrittenLine(q[i].ip, q[i].data)]
Persisted(k) ==
    \E i \in 1..Len(Appended) : Appended[i] = WrittenLine(k, LastRecorded(k))

\* C1: read-your-write.  Once a lookup result for k is recorded, the in-memory
\* cache holds the last recorded result for k (so every read of k, the
\* selection's and the merge's, returns it until k is recorded again); the
\* entry is in the map before it is enqueued, whatever the writer has persisted.
C1_ReadYourWrite ==
    /\ \A k \in IpKeys : HasRecorded(k) => DictGet(cache, k) = LastRecorded(k)
    /\ \A k \in DOMAIN rows : HasRecorded(k) => rows[k] = LastRecorded(k)
    /\ mainPc = "put" =>
          /\ hist.recorded = Append(hist.enqueued, cur)
          /\ DictGet(cache, cur.ip) = cur.data
    /\ Len(hist.enqueued) <= Len(hist.recorded)
    /\ hist.enqueued = SubSeq(hist.recorded, 1, Len(hist.enqueued))

\* The merge has read a recorded result that the writer has not persisted yet.
C1_Witness ==
    /\ mainPc = "write_tmp"
    /\ \E k \in DOMAIN rows :
          /\ HasRecorded(k)
          /\ rows[k] = LastRecorded(k)
          /\ ~Persisted(k)
          /\ \E i \in 1..Len(cache_q) : cache_q[i].ip = k

AllPerformedLogged ==
    \A p \in hist.performed :
        \E i \in 1..Len(Appended) : Appended[i] = WrittenLine(p.ip, p.data)

\* C3: graceful interrupt.  When an interrupted run has left main()'s finally
\* block, every lookup performed during the run, those finishing after the
\* interrupt included, has its result in the durable log.
C3_InterruptKeepsEveryLookup ==
    (mainPc = "done" /\ interrupted) => AllPerformedLogged

\* An interrupted run has ended and a lookup it performed is in no record.
C3_LookupLost ==
    /\ mainPc = "done"
    /\ interrupted
    /\ ~AllPerformedLogged

\* What does hold of an interrupted run: no file is admitted after the
\* interrupt, the pool is left only when every submitted lookup has run, and at
\* exit every entry that was enqueued is in the log.
InterruptStopsIntakeAndDrains ==
    /\ [][interrupted => file_i' = file_i]_vars
    /\ [][(mainPc = "shutdown" /\ mainPc' # "shutdown") =>
              \A ip \in to_query : futs[ip].done]_vars
    /\ []((mainPc = "done" /\ interrupted) => Appended = AsLines(hist.enqueued))

(***************************************************************************)
(* write_atomic(path, df), called once for every version of one output     *)
(* file.  A file is the version of the frame it holds and how many of the  *)
(* frame's chunks have reached it; to_csv writes the chunks one by one.    *)
(***************************************************************************)
\* The chunks of a frame, and how often the file is written (re-runs included).
FrameChunks == 2
MaxWrites == 3

\* Line 133: tmp = Path(str(path) + ".tmp").
SamePath_tmp_path == "out"

tmp_path == "tmp"

Complete(f) == f.exists /\ f.n = FrameChunks
Partial(f) == f.exists /\ f.n < FrameChunks

\* The output is absent or left complete by an earlier run; an earlier run that
\* died may have left a partial .tmp behind.
InitWriteAtomic ==
    /\ fs \in [{"out", "tmp"} -> {AbsentFile, [exists |-> TRUE, ver |-> 0, n |-> FrameChunks],
                                  [exists |-> TRUE, ver |-> 0, n |-> 1]}]
    /\ ~Partial(fs["out"])
    /\ ~Complete(fs["tmp"])
    /\ waPc = "call"
    /\ waVer = 1
    /\ CacheIdle /\ ConsIdle /\ CdnIdle /\ ShardIdle /\ TbIdle /\ SelIdle /\ RowsIdle /\ BoIdle /\ BudIdle /\ SlIdle

\* Line 134, df.to_csv(tmp, ...): the file is opened for writing, which creates or
\* truncates it.
OpenTmp ==
    /\ waPc = "call"
    /\ fs' = [fs EXCEPT ![tmp_path] = [exists |-> TRUE, ver |-> waVer, n |-> 0]]
    /\ waPc' = "writing"
    /\ UNCHANGED <<waVer, notWa>>

\* Line 134: one more chunk of the frame reaches the file.
WriteChunk ==
    /\ waPc = "writing"
    /\ fs[tmp_path].n < FrameChunks
    /\ fs' = [fs EXCEPT ![tmp_path].n = @ + 1]
    /\ UNCHANGED <<waPc, waVer, notWa>>

\* Line 134: to_csv has written everything, closes the file and returns.
CloseTmp ==
    /\ waPc = "writing"
    /\ fs[tmp_path].n = FrameChunks
    /\ waPc' = "replace"
    /\ UNCHANGED <<fs, waVer, notWa>>

\* Line 135: os.replace(tmp, path) renames the file in one step.
OsReplace ==
    /\ waPc = "replace"
    /\ fs' = [p \in {"out", "tmp"} |-> IF p = "out" THEN fs[tmp_path] ELSE AbsentFile]
    /\ waPc' = "returned"
    /\ UNCHANGED <<waVer, notWa>>

\* to_csv or os.replace raises (the disk is full, the directory is gone): the call
\* is left with the files as they are.
WriteRaises ==
    /\ waPc \in {"call", "writing", "replace"}
    /\ waPc' = "raised"
    /\ UNCHANGED <<fs, waVer, notWa>>

\* The process is killed or interrupted at any step of the call.
WriteCrash ==
    /\ waPc \in {"call", "writing", "replace"}
    /\ waPc' = "crashed"
    /\ UNCHANGED <<fs, waVer, notWa>>

\* The same output is written again, by this run's next attempt or by a later run.
WriteAgain ==
    /\ waPc \in {"returned", "raised", "crashed"}
    /\ waVer < MaxWrites
    /\ waVer' = waVer + 1
    /\ waPc' = "call"
    /\ UNCHANGED <<fs, notWa>>

NextWriteAtomic ==
    \/ OpenTmp
    \/ WriteChunk
    \/ CloseTmp
    \/ OsReplace
    \/ WriteRaises
    \/ WriteCrash
    \/ WriteAgain
SpecWriteAtomic == InitWriteAtomic /\ [][NextWriteAtomic]_vars

\* C11: atomic output write.  At every step of write_atomic, a crash or an
\* exception at any of them included, the output path is absent or holds a
\* complete file: an earlier version while the call is under way, the version
\* just written once the call has returned.  A partial file is only ever under
\* the .tmp path.
C11_AtomicOutputWrite ==
    /\ ~fs["out"].exists \/ Complete(fs["out"])
    /\ fs["out"].exists => fs["out"].ver <= waVer
    /\ (waPc \in {"call", "writing", "replace"} /\ fs["out"].exists) =>
           fs["out"].ver < waVer
    /\ waPc = "returned" => (Complete(fs["out"]) /\ fs["out"].ver = waVer)

\* The process died in the middle of to_csv: the partial new version is under
\* the .tmp path and the output path still holds the complete version before it.
C11_Witness ==
    /\ waPc = "crashed"
    /\ Partial(fs["tmp"]) /\ fs["tmp"].ver = waVer /\ fs["tmp"].n > 0
    /\ Complete(fs["out"]) /\ fs["out"].ver = waVer - 1 /\ fs["out"].ver > 0

(***************************************************************************)
(* The selection loop of process_csv (lines 351-368) on its own: which of  *)
(* a file's ips are submitted, for every cache and every setting.          *)
(***************************************************************************)
NumSelIps == 3
MaxBudget == 2
SelIps == 1..NumSelIps
SelConfigs ==
    [RETRY_BAD_CACHE : BOOLEAN, RETRY_EMPTY_CC : BOOLEAN, BUDGET : 0..MaxBudget]

InitSelect ==
    /\ sel_in \in [ips : SUBSET SelIps, cache : [SelIps -> DataVals], conf : SelConfigs]
    /\ sel_out = {}
    /\ selPc = "ready"
    /\ CacheIdle /\ ConsIdle /\ CdnIdle /\ ShardIdle /\ TbIdle /\ WaIdle /\ RowsIdle /\ BoIdle /\ BudIdle /\ SlIdle

\* Lines 351-368.
Select ==
    /\ selPc = "ready"
    /\ sel_out' \in select_to_query(sel_in.ips, sel_in.cache, sel_in.conf)
    /\ selPc' = "done"
    /\ UNCHANGED <<sel_in, notSel>>

NextSelect == Select
SpecSelect == InitSelect /\ [][NextSelect]_vars

\* The entry cache.get(ip) finds: none (or a falsy one), a failed one, one that is
\* ok without a country code, one that is ok with a country code.
NoEntry(e) == e.empty
FailedEntry(e) == ~e.empty /\ ~e.ok
OkNoCc(e) == ~e.empty /\ e.ok /\ e.rdap_net_cc = None
OkWithCc(e) == ~e.empty /\ e.ok /\ e.rdap_net_cc # None

\* C12: selection policy.  With no budget the IPs submitted are exactly the
\* file's IPs that have no cached entry, or a failed one while retry-failed is
\* set, or an ok one without country code while retry-empty-country-code is
\* set; an IP cached ok with a country code is never submitted, budget or not.
C12_SelectionPolicy ==
    selPc = "done" =>
        /\ sel_in.conf.BUDGET = 0 =>
               sel_out = {ip \in sel_in.ips :
                             \/ NoEntry(sel_in.cache[ip])
                             \/ FailedEntry(sel_in.cache[ip]) /\ sel_in.conf.RETRY_BAD_CACHE
                             \/ OkNoCc(sel_in.cache[ip]) /\ sel_in.conf.RETRY_EMPTY_CC}
        /\ \A ip \in sel_out : ip \in sel_in.ips /\ ~OkWithCc(sel_in.cache[ip])

\* IPs [A, B, C] with A cached ok with a country, B not cached and C cached as
\* failed, retry-failed set: exactly {B, C} are submitted.
C12_Witness ==
    /\ selPc = "done"
    /\ sel_in.ips = {1, 2, 3}
    /\ sel_in.cache[1] = OkEntry("RU")
    /\ sel_in.cache[2] = EmptyData
    /\ sel_in.cache[3] = FailEntry
    /\ sel_in.conf.RETRY_BAD_CACHE /\ sel_in.conf.BUDGET = 0
    /\ sel_out = {2, 3}

\* ---- More properties of the run ----

\* The lookups performed for key k, and the records appended for it, in this run.
LookupsOf(k) == {p \in hist.performed : p.ip = k}
AppendedFor(k) == {i \in 1..Len(Appended) : Appended[i].ip.v = k}

\* C13: one lookup and one cache entry per IP per run.  Across all assigned
\* files and for every setting of the retry flags, each IP is looked up at most
\* once and at most one record for it is appended to the log.
C13_OneLookupPerIpPerRun ==
    \A k \in IpKeys :
        /\ Cardinality(LookupsOf(k)) <= 1
        /\ mainPc \notin {"start", "load"} => Cardinality(AppendedFor(k)) <= 1

\* An uninterrupted run has ended with two records of one IP appended.
C13_TwoRecords ==
    /\ mainPc = "done"
    /\ ~interrupted
    /\ \E k \in IpKeys : Cardinality(AppendedFor(k)) = 2

\* What does hold: an IP is looked up at most once per file, never again once a
\* lookup returned ok with a country code, and at most once in the run when both
\* retry flags are off.
OneLookupPerIpWithoutRetry ==
    \A k \in IpKeys :
        /\ \A f \in Jobs : Cardinality({p \in LookupsOf(k) : p.file = f}) <= 1
        /\ \A p, q \in LookupsOf(k) : (OkWithCc(p.data) /\ p.file <= q.file) => p = q
        /\ (~cfg.RETRY_BAD_CACHE /\ ~cfg.RETRY_EMPTY_CC) =>
               \A p, q \in LookupsOf(k) : p.file = q.file

\* The batch of the file in hand has left the pool without an interrupt.
BatchDone ==
    /\ mainPc \in {"merge", "write_tmp", "replace", "journal_ok", "file_error"}
    /\ to_query # {}

\* C14: per-IP failure isolation.  A lookup task always returns an entry, ok or
\* failed, whatever the registry call raised; and when the batch of a file has
\* left the pool, every submitted IP, next to a failed one too, has exactly one
\* entry of the batch in the in-memory cache and in the queue's history.
C14_PerIpFailureIsolation ==
    /\ \A ip \in DOMAIN futs :
           futs[ip].done =>
               /\ ~futs[ip].data.empty
               /\ futs[ip].data.ok \/ futs[ip].data = FailEntry
    /\ BatchDone =>
           LET n == Cardinality(to_query)
               L == Len(hist.recorded)
           IN /\ n <= L
              /\ hist.enqueued = hist.recorded
              /\ \A ip \in to_query :
                     /\ futs[ip].done
                     /\ DictGet(cache, ip) = futs[ip].data
                     /\ \E i \in (L - n + 1)..L :
                            /\ hist.recorded[i] = [ip |-> ip, data |-> futs[ip].data]
                            /\ \A j \in (L - n + 1)..L :
                                   hist.recorded[j].ip = ip => j = i

\* A batch of two is through: the lookup of one IP failed, the other IP has its
\* ok entry all the same.
C14_Witness ==
    /\ BatchDone
    /\ to_query = {1, 2}
    /\ futs[1].data = FailEntry
    /\ futs[2].data = OkEntry("RU")
    /\ DictGet(cache, 1) = FailEntry
    /\ DictGet(cache, 2) = OkEntry("RU")

\* The file loop has been left without an interrupt.
LoopLeft == ~interrupted /\ mainPc \in {"stop", "join", "done"}
HasError(j) == \E e \in 1..Len(errors) : errors[e] = j

\* C15: per-file failure isolation.  When reading, processing or writing an
\* assigned file raises an exception, the file gets a line in the error log and
\* a journal record with status error, its output path is as it was before the
\* attempt, and the loop goes on: the files are journaled one after the other
\* and the loop is left only when each of them has its record.
C15_PerFileFailureIsolation ==
    /\ \A i \in 1..Len(journal) :
           /\ journal[i].file = i
           /\ journal[i].status = "error" <=> HasError(i)
           /\ journal[i].status = "error" => out_exists[i] = hist.out0[i]
    /\ mainPc = "file_error" => out_exists[file_i] = hist.out0[file_i]
    /\ LoopLeft => Len(journal) = NumJobs

\* An uninterrupted run has ended: its first file, which has IPs, raised, and
\* its second file was processed and written.
C15_Witness ==
    /\ mainPc = "done"
    /\ ~interrupted
    /\ job_ips[1] # {}
    /\ journal[1].status = "error" /\ ~out_exists[1] /\ errors = <<1>>
    /\ journal[2].status = "ok" /\ out_exists[2]

\* C16: the journal.  The records are those of the assigned files, one each and
\* in the order of the loop, with status skip_exists, ok or error; a file with
\* an ok record has its output in place; when the loop is left without an
\* interrupt every assigned file has its record; and a step either leaves the
\* journal alone or appends one record to it.
C16_Journal ==
    /\ [](/\ \A i \in 1..Len(journal) :
               /\ journal[i].file = i
               /\ journal[i].status \in {"skip_exists", "ok", "error"}
               /\ journal[i].status = "ok" => out_exists[i]
          /\ Len(journal) <= NumJobs
          /\ LoopLeft => Len(journal) = NumJobs)
    /\ [][\/ journal' = journal
          \/ /\ Len(journal') = Len(journal) + 1
             /\ SubSeq(journal', 1, Len(journal)) = journal]_vars

\* An uninterrupted run has ended with one file skipped and one journaled ok.
C16_Witness ==
    /\ mainPc = "done"
    /\ ~interrupted
    /\ Len(journal) = NumJobs
    /\ journal[1].status = "skip_exists"
    /\ journal[2].status = "ok"

\* File j has been admitted to process_csv in this run.
Admitted(j) ==
    \/ j <= Len(journal) /\ journal[j].status # "skip_exists"
    \/ j = file_i /\ j > Len(journal) /\ mainPc # "loop"

\* C17: idempotent resume.  With skip-if-exists set, whatever an earlier run
\* left behind, the files admitted to processing are exactly the assigned files
\* that had no output when the run began; a file that had one is journaled
\* skip_exists, no lookup is made for it and its output stays in place.
C17_IdempotentResume ==
    cfg.SKIP_IF_EXISTS =>
        \A j \in 1..file_i :
            /\ Admitted(j) <=> ~hist.out0[j]
            /\ hist.out0[j] =>
                   /\ out_exists[j]
                   /\ \A p \in hist.performed : p.file # j
                   /\ j <= Len(journal) => journal[j].status = "skip_exists"

\* A re-run has ended: its first file, which had no output, was processed with
\* a lookup, and its second file, which has IPs but had its output, was skipped.
C17_Witness ==
    /\ mainPc = "done"
    /\ ~interrupted
    /\ cfg.SKIP_IF_EXISTS
    /\ hist.out0 = <<FALSE, TRUE>>
    /\ job_ips[2] # {}
    /\ journal[1].status = "ok" /\ journal[2].status = "skip_exists"
    /\ \E p \in hist.performed : p.file = 1

(***************************************************************************)
(* process_csv as a function from the rows of the input file to the rows   *)
(* of the frame it returns: the CDN filter, the ips, one rd row per ip     *)
(* read from the cache, the left join on src, the consensus columns.       *)
(***************************************************************************)
MaxRows == 3
\* src of a row: an IP, or 0 for a missing value.
NaSrc == 0
\* A column name with the suffix the merge gave it.
Col(name) == <<name, "">>
ColX(name) == <<name, "_x">>
ColY(name) == <<name, "_y">>

\* The cells exclude_cdn reads of an input row: the file has a domain column,
\* which names a CDN or not, and may have an rdap_org column of its own.
RowCells(r, inp) ==
    [domain |-> IF r.cdn THEN <<"c", "d">> ELSE <<"x">>,
     asnum |-> [kind |-> "absent", v |-> 0],
     asorg |-> AbsentCol, org |-> AbsentCol, isp |-> AbsentCol,
     rdap_org |-> IF inp.rdap_org_col THEN <<"x">> ELSE AbsentCol]
InputCols(inp) ==
    {"src", "domain"} \cup (IF inp.rdap_org_col THEN {"rdap_org"} ELSE {})

\* Lines 338-341.
filter_rows(df, inp) ==
    IF inp.CDN_EXCLUDE
    THEN SelectSeq(df, LAMBDA r : exclude_cdn(RowCells(r, inp)))
    ELSE df

\* Line 344: the distinct src values, missing ones dropped.
ips_of(df) == {df[i].src : i \in 1..Len(df)} \ {NaSrc}

\* Lines 385-397: one row per ip, in the order of the list `ips`.
rd_rows(order, c) == [k \in 1..Len(order) |-> [src |-> order[k], data |-> DictGet(c, order[k])]]
RdCols == {"src", "rdap_ok", "rdap_net_cc", "rdap_org", "rdap_cidr", "rir", "rdap_error"}

\* Line 399, df.merge(rd, on="src", how="left"): the left rows in their order,
\* each once for every right row with its key, or once with missing values.
RECURSIVE left_join(_, _)
left_join(df, rd) ==
    IF df = <<>> THEN <<>>
    ELSE LET r == Head(df)
             ms == SelectSeq(rd, LAMBDA x : x.src = r.src)
             out == IF ms = <<>>
                    THEN <<[line |-> r.line, src |-> r.src, data |-> EmptyData]>>
                    ELSE [k \in 1..Len(ms) |->
                             [line |-> r.line, src |-> r.src, data |-> ms[k].data]]
         IN out \o left_join(Tail(df), rd)
\* The columns of the merged frame: a name on both sides, the key apart, gets the
\* suffixes _x and _y.
merge_cols(left, right) ==
    LET both == (left \cap right) \ {"src"}
    IN {Col(c) : c \in (left \cup right) \ both}
           \cup {ColX(c) : c \in both} \cup {ColY(c) : c \in both}

\* Lines 327-404 for the rows `df0` of the file, with `order` the list ips.
process_rows(df0, inp, order) ==
    LET df == filter_rows(df0, inp)
    IN IF ips_of(df) = {}
       THEN [status |-> "error", rows |-> <<>>, cols |-> {}]
       ELSE [status |-> "ok",
             rows |-> left_join(df, rd_rows(order, inp.cache)),
             cols |-> merge_cols(InputCols(inp), RdCols)
                          \cup {Col("country_consensus"), Col("consensus_rule")}]

InputRows ==
    UNION {[1..n -> [src : {NaSrc} \cup IpKeys, cdn : BOOLEAN]] : n \in 0..MaxRows}
Numbered(f) == [i \in 1..Len(f) |-> [line |-> i, src |-> f[i].src, cdn |-> f[i].cdn]]
\* The orders list(set(...)) may give the ips.
Orders(S) == {o \in SeqsUpTo(S, Cardinality(S)) : {o[i] : i \in 1..Len(o)} = S /\ Len(o) = Cardinality(S)}

InitRows ==
    /\ rows_in \in [df : {Numbered(f) : f \in InputRows},
                    cache : [IpKeys -> {OkEntry("RU"), EmptyData}],
                    CDN_EXCLUDE : BOOLEAN, rdap_org_col : BOOLEAN]
    /\ rows_out = <<>>
    /\ rowsPc = "ready"
    /\ CacheIdle /\ ConsIdle /\ CdnIdle /\ ShardIdle /\ TbIdle /\ WaIdle /\ SelIdle /\ BoIdle /\ BudIdle /\ SlIdle

ProcessRows ==
    /\ rowsPc = "ready"
    /\ \E order \in Orders(ips_of(filter_rows(rows_in.df, rows_in))) :
           rows_out' = process_rows(rows_in.df, rows_in, order)
    /\ rowsPc' = "done"
    /\ UNCHANGED <<rows_in, notRows>>

NextRows == ProcessRows
SpecRows == InitRows /\ [][NextRows]_vars

Lines(rs) == [i \in 1..Len(rs) |-> rs[i].line]
EightAdded ==
    {Col(c) : c \in {"rdap_ok", "rdap_net_cc", "rdap_org", "rdap_cidr", "rir",
                     "rdap_error", "country_consensus", "consensus_rule"}}

\* C18: output rows.  For a file that is processed successfully the output has
\* exactly one row for each row of the input file, in input order, and carries
\* all eight added fields.
C18_OutputRows ==
    (rowsPc = "done" /\ rows_out.status = "ok") =>
        /\ Lines(rows_out.rows) = Lines(rows_in.df)
        /\ EightAdded \subseteq rows_out.cols

\* A file was processed successfully and a row of it is not in the output.
C18_RowMissing ==
    /\ rowsPc = "done"
    /\ rows_out.status = "ok"
    /\ \E i \in 1..Len(rows_in.df) : \A k \in 1..Len(rows_out.rows) : rows_out.rows[k].line # i

\* What does hold: the output has exactly one row for each row the CDN filter
\* kept, in input order, each with the cache entry of its src; and the eight
\* fields are there under their names unless the input has one of them already.
OutputRowsOfFilteredFrame ==
    (rowsPc = "done" /\ rows_out.status = "ok") =>
        LET kept == filter_rows(rows_in.df, rows_in)
        IN /\ Lines(rows_out.rows) = Lines(kept)
           /\ \A k \in 1..Len(kept) :
                  /\ rows_out.rows[k].src = kept[k].src
                  /\ rows_out.rows[k].data =
                         IF kept[k].src = NaSrc THEN EmptyData
                         ELSE rows_in.cache[kept[k].src]
           /\ ~rows_in.CDN_EXCLUDE => Lines(rows_out.rows) = Lines(rows_in.df)
           /\ ~rows_in.rdap_org_col => EightAdded \subseteq rows_out.cols

\* C19: fatal start-up conditions.  If the input root directory does not exist,
\* or no input CSV is found under it in the nested or in the flat layout, the run
\* stops with a failure exit, the cache writer not started, no lookup made, and
\* the journal, the error log, the cache file and the outputs as they were.
C19_FatalStartup ==
    hist.fatal # None =>
        /\ mainPc = "exit1"
        /\ writerPc = "not_started"
        /\ hist.performed = {} /\ hist.enqueued = <<>> /\ cache_q = <<>>
        /\ journal = <<>> /\ errors = <<>>
        /\ Len(cacheFile) = hist.log0
        /\ out_exists = hist.out0

\* The root exists and holds no CSV: the run has loaded a cache file with records
\* in it and has exited.
C19_Witness ==
    /\ hist.fatal = "no_csv"
    /\ mainPc = "exit1"
    /\ Len(cacheFile) > 0
    /\ writerPc = "not_started"

\* What an acquire whose sample is `now` finds after the refill: the tokens plus
\* the time from the last refill to the sample, never negative, capped.
Available(tokens, last, now) == Min(Capacity, tokens + Max(0, now - last))

\* C20: token-bucket step.  Every acquire first refills by the elapsed time times
\* the rate, capped at the capacity, and then either consumes exactly one token
\* and returns zero wait (at least one token available) or returns the wait
\* (1 - available) / qps > 0 and consumes nothing; nothing else changes the
\* tokens; and always, whatever the interleaving of the workers,
\* 0 <= tokens <= capacity.
C20_TokenBucketStep ==
    /\ [](tb_tokens >= 0 /\ tb_tokens <= Capacity)
    /\ [][IF Len(acq_log') = Len(acq_log) + 1
          THEN LET a == acq_log'[Len(acq_log')]
                   avail == Available(tb_tokens, tb_last, a.now)
               IN IF avail >= OneToken
                  THEN tb_tokens' = avail - OneToken /\ a.wait = 0
                  ELSE tb_tokens' = avail /\ a.wait = OneToken - avail /\ a.wait > 0
          ELSE tb_tokens' = tb_tokens /\ acq_log' = acq_log]_vars

\* The first acquire came after time had passed on a full bucket (the refill was
\* capped) and took a token; a later one found less than a token and was told to
\* wait; and one acquire used a sample older than the last refill.
C20_Witness ==
    /\ Len(acq_log) >= 3
    /\ acq_log[1].now > 0 /\ acq_log[1].wait = 0
    /\ \E i \in 1..Len(acq_log) : acq_log[i].wait > 0
    /\ \E i \in 1..Len(acq_log) : acq_log[i].now < acq_log[i].t
    /\ tb_tokens < OneToken

(***************************************************************************)
(* _with_backoff, one step per invocation of the wrapped function and per  *)
(* sleep.  An exception is its lower-cased message, kept as the set of the *)
(* markers it contains; delays are in 1/UnitsPerSecond of a second and     *)
(* without the random part of up to a fifth that line 239 adds.            *)
(***************************************************************************)
BackoffAttempts == 6
UnitsPerSecond == 2
InitialDelay == UnitsPerSecond \div 2
DelayCap == 16 * UnitsPerSecond

Value == [kind |-> "value", msg |-> {}]
Exc(msg) == [kind |-> "exc", msg |-> msg]
\* The messages told apart: one with none of the markers, and one with each.
ExcMsgs == {{}, {"429"}, {"rate"}, {"too many"}}
BoOutcomes == {Value} \cup {Exc(msg) : msg \in ExcMsgs}

\* Line 238.
Only429_rate_limit_like(msg) == "429" \in msg

rate_limit_like(msg) == "429" \in msg \/ "rate" \in msg \/ "too many" \in msg

InitBackoff ==
    /\ bo_pc = "try"
    /\ bo_calls = <<>>
    /\ bo_delay = InitialDelay
    /\ bo_sleeps = <<>>
    /\ bo_ret = <<>>
    /\ CacheIdle /\ ConsIdle /\ CdnIdle /\ ShardIdle /\ TbIdle /\ WaIdle /\ SelIdle /\ RowsIdle /\ BudIdle /\ SlIdle

\* Lines 234-242 and 243: func is invoked, inside the try for the first
\* BackoffAttempts times and bare after them.
Invoke ==
    /\ bo_pc = "try"
    /\ \E o \in BoOutcomes :
           /\ bo_calls' = Append(bo_calls, o)
           /\ IF o.kind = "value"
              THEN bo_pc' = "returned" /\ bo_ret' = <<o>>
              ELSE IF Len(bo_calls) < BackoffAttempts /\ rate_limit_like(o.msg)
                   THEN bo_pc' = "sleep" /\ bo_ret' = bo_ret
                   ELSE bo_pc' = "raised" /\ bo_ret' = <<o>>
    /\ UNCHANGED <<bo_delay, bo_sleeps, notBo>>

\* Lines 239-241.
BackoffSleep ==
    /\ bo_pc = "sleep"
    /\ bo_sleeps' = Append(bo_sleeps, bo_delay)
    /\ bo_delay' = Min(bo_delay * 2, DelayCap)
    /\ bo_pc' = "try"
    /\ UNCHANGED <<bo_calls, bo_ret, notBo>>

NextBackoff == Invoke \/ BackoffSleep
SpecBackoff == InitBackoff /\ [][NextBackoff]_vars

RateMarkers == {"429", "rate", "too many"}
RateLimited(o) == o.kind = "exc" /\ o.msg \cap RateMarkers # {}
BoEnded == bo_pc \in {"returned", "raised"}

\* C21: backoff attempt discipline.  The wrapped function is invoked at most 7
\* times; a success is returned at once; a failure that is not rate-limit-like
\* propagates at once, with no sleep; a rate-limit-like failure in one of the 6
\* guarded attempts is followed by a sleep and a retry; the outcome of the 7th
\* attempt is returned as it is.
C21_BackoffDiscipline ==
    /\ Len(bo_calls) <= BackoffAttempts + 1
    /\ \A i \in 1..(Len(bo_calls) - 1) : RateLimited(bo_calls[i])
    /\ bo_calls # <<>> =>
           LET n == Len(bo_calls)
               o == bo_calls[n]
           IN /\ o.kind = "value" => bo_pc = "returned"
              /\ (o.kind = "exc" /\ ~RateLimited(o)) => bo_pc = "raised"
              /\ (RateLimited(o) /\ n <= BackoffAttempts) => bo_pc \in {"sleep", "try"}
              /\ (RateLimited(o) /\ n = BackoffAttempts + 1) => bo_pc = "raised"
              /\ BoEnded => bo_ret = <<o>> /\ Len(bo_sleeps) = n - 1
              /\ bo_pc = "sleep" => Len(bo_sleeps) = n - 1
              /\ bo_pc = "try" => Len(bo_sleeps) = n
    /\ ~BoEnded => bo_ret = <<>>

\* Six rate-limit-like failures, six sleeps, the last at the cap, and the seventh
\* invocation fails rate-limit-like too and is raised.
C21_Witness ==
    /\ bo_pc = "raised"
    /\ Len(bo_calls) = BackoffAttempts + 1
    /\ RateLimited(bo_calls[BackoffAttempts + 1])
    /\ Len(bo_sleeps) = BackoffAttempts
    /\ bo_sleeps[BackoffAttempts] = DelayCap

(***************************************************************************)
(* One file from the selection loop to the rd frame (lines 351-397), with  *)
(* the list ips in its order.  The keys are named by their place in the    *)
(* list; the cache ranges over every assignment of entries to them.        *)
(***************************************************************************)
NumBudIps == 3
BudIps == 1..NumBudIps
BudConfigs ==
    [RETRY_BAD_CACHE : BOOLEAN, RETRY_EMPTY_CC : BOOLEAN, BUDGET : 0..MaxBudget]

\* Lines 352-368, with to_query and used as they stand before ip is looked at.
RECURSIVE CountSkipped_select_loop(_, _, _, _, _)
CountSkipped_select_loop(ips, c, conf, to_q, used) ==
    IF ips = <<>> THEN to_q
    ELSE LET ip == Head(ips)
         IN IF conf.BUDGET # 0 /\ used >= conf.BUDGET THEN to_q
            ELSE IF ~needs_query(DictGet(c, ip), conf)
                 THEN CountSkipped_select_loop(Tail(ips), c, conf, to_q, used + 1)
                 ELSE CountSkipped_select_loop(Tail(ips), c, conf, Append(to_q, ip), used + 1)

RECURSIVE select_loop(_, _, _, _, _)
select_loop(ips, c, conf, to_q, used) ==
    IF ips = <<>> THEN to_q
    ELSE LET ip == Head(ips)
         IN IF ~needs_query(DictGet(c, ip), conf)
            THEN select_loop(Tail(ips), c, conf, to_q, used)
            ELSE IF conf.BUDGET # 0 /\ used >= conf.BUDGET
                 THEN to_q
                 ELSE select_loop(Tail(ips), c, conf, Append(to_q, ip), used + 1)

InitBudget ==
    /\ bud_in \in [ips : {[i \in 1..n |-> i] : n \in 0..NumBudIps},
                   cache : [BudIps -> DataVals], conf : BudConfigs]
    /\ bud_query = <<>>
    /\ bud_cache = <<>>
    /\ bud_rd = <<>>
    /\ bud_pc = "select"
    /\ CacheIdle /\ ConsIdle /\ CdnIdle /\ ShardIdle /\ TbIdle /\ WaIdle /\ SelIdle /\ RowsIdle /\ BoIdle /\ SlIdle

\* Lines 351-368.
BudSelect ==
    /\ bud_pc = "select"
    /\ bud_query' = select_loop(bud_in.ips, bud_in.cache, bud_in.conf, <<>>, 0)
    /\ bud_cache' = bud_in.cache
    /\ bud_pc' = "lookups"
    /\ UNCHANGED <<bud_in, bud_rd, notBud>>

\* Lines 370-382: every ip of to_query is looked up and its result put in the cache.
BudLookups ==
    /\ bud_pc = "lookups"
    /\ \E res \in [Range(bud_query) -> LookupResults] :
           bud_cache' = [k \in BudIps |-> IF k \in Range(bud_query) THEN res[k]
                                          ELSE bud_cache[k]]
    /\ bud_pc' = "merge"
    /\ UNCHANGED <<bud_in, bud_query, bud_rd, notBud>>

\* Lines 385-397.
BudMerge ==
    /\ bud_pc = "merge"
    /\ bud_rd' = rd_rows(bud_in.ips, bud_cache)
    /\ bud_pc' = "merged"
    /\ UNCHANGED <<bud_in, bud_query, bud_cache, notBud>>

NextBudget == BudSelect \/ BudLookups \/ BudMerge
SpecBudget == InitBudget /\ [][NextBudget]_vars

\* The ips of the file that are eligible for a fresh lookup, in list order.
Eligible(ip) ==
    LET e == bud_in.cache[ip]
    IN \/ NoEntry(e)
       \/ FailedEntry(e) /\ bud_in.conf.RETRY_BAD_CACHE
       \/ OkNoCc(e) /\ bud_in.conf.RETRY_EMPTY_CC
EligibleSeq == SelectSeq(bud_in.ips, Eligible)

\* C22: per-file lookup budget.  With a budget B > 0 at most B IPs are
\* submitted, they are the first B eligible IPs of the list (admission stops at
\* the first eligible IP reached after B were admitted, and IPs skipped for a
\* usable cached entry do not count); with B = 0 every eligible IP is
\* submitted.  An IP left out still has its row in rd, with its cached values or
\* with empty registry fields.
C22_PerFileBudget ==
    LET B == bud_in.conf.BUDGET
    IN /\ bud_pc \in {"lookups", "merge", "merged"} =>
              /\ B > 0 => Len(bud_query) <= B
              /\ bud_query = SubSeq(EligibleSeq, 1,
                                    IF B = 0 THEN Len(EligibleSeq)
                                    ELSE Min(B, Len(EligibleSeq)))
       /\ bud_pc = "merged" =>
              /\ Len(bud_rd) = Len(bud_in.ips)
              /\ \A k \in 1..Len(bud_rd) :
                     /\ bud_rd[k].src = bud_in.ips[k]
                     /\ bud_in.ips[k] \notin Range(bud_query) =>
                            bud_rd[k].data = bud_in.cache[bud_in.ips[k]]

\* Budget 1 and the list [A, B, C] with A cached ok with a country and B and C
\* not cached: B alone is submitted, and C is in rd with empty fields.
C22_Witness ==
    /\ bud_pc = "merged"
    /\ bud_in.conf.BUDGET = 1
    /\ bud_in.ips = <<1, 2, 3>>
    /\ bud_in.cache[1] = OkEntry("RU")
    /\ bud_in.cache[2] = EmptyData /\ bud_in.cache[3] = EmptyData
    /\ bud_query = <<2>>
    /\ bud_rd[2].data # EmptyData
    /\ bud_rd[3].data = EmptyData

\* C23: backpressure.  The queue never holds more than its bound; a put returns
\* only when the queue had room, and then the entry in hand is at the tail of
\* the queue; while the queue is full the caller stays in the put with its entry,
\* until the writer has removed an entry.  (A KeyboardInterrupt raised in the
\* blocked caller is the subject of C3.)
C23_Backpressure ==
    /\ [](Len(cache_q) <= QueueMaxsize)
    /\ [][IF mainPc = "put" /\ mainPc' = "collect"
          THEN /\ Len(cache_q) < QueueMaxsize
               /\ cache_q' = Append(cache_q, cur)
          ELSE /\ (mainPc = "put" /\ ~interrupted') => (mainPc' = "put" /\ cur' = cur)
               /\ (cache_q' = cache_q \/ cache_q' = Tail(cache_q))]_vars

\* The main thread stands in the put with a result in hand, the queue is full and
\* the writer is running.
C23_Witness ==
    /\ mainPc = "put"
    /\ Len(cache_q) = QueueMaxsize
    /\ cur # NoItem
    /\ writerPc = "running"
    /\ ~interrupted

\* The locks held where the cache map is accessed (lines 353, 380, 387 and
\* load_cache): none.  The program's locks are _tb_lock, taken by the workers in
\* the token bucket, and the file lock the writer takes around its write.
MapLocks == {}

\* C24, as claimed: every mutation of the in-memory cache map is made while
\* holding a single lock.
C24_MapMutatedUnderLock ==
    [][cache' # cache => MapLocks # {}]_vars

\* A step of a pool worker (a future becomes done) or of the writer thread.
WorkerStep == \E ip \in DOMAIN futs : ~futs[ip].done /\ ip \in DOMAIN futs' /\ futs'[ip].done
WriterThreadStep == writerPc = "running" /\ (cacheFile' # cacheFile \/ writerPc' # writerPc)

\* C24, amended: the map is accessed by the main thread only.  It changes only
\* in load_cache, before any other thread exists, and where the main thread
\* collects a finished future; no step of a worker or of the writer changes it;
\* so no two threads ever read or write it concurrently, with no lock.
C24_MapOwnedByMainThread ==
    /\ [](mainPc = "load" => (writerPc = "not_started" /\ futs = <<>>))
    /\ [][/\ cache' # cache =>
                 \/ mainPc = "load" /\ mainPc' # "load"
                 \/ mainPc = "collect" /\ mainPc' = "put" /\ cache' = DictPut(cache, cur'.ip, cur'.data)
          /\ (WorkerStep \/ WriterThreadStep) => cache' = cache]_vars

\* The main thread has just written the map while a lookup of the same batch is
\* still running in the pool and the writer thread is running.
C24_Witness ==
    /\ mainPc = "put"
    /\ DictGet(cache, cur.ip) = cur.data
    /\ \E ip \in DOMAIN futs : ~futs[ip].done
    /\ writerPc = "running"

(***************************************************************************)
(* cache_writer_thread in several shard processes that share RDAP_CACHE,   *)
(* with fcntl available.  Each process has its own open file f, in append  *)
(* mode, with Python's buffer in front of it.  The file is the sequence of *)
(* the pieces appended: a whole record with its newline, or, when a flush  *)
(* failed part-way, the head of a record and later perhaps its tail.       *)
(***************************************************************************)
NumProcs == 2
MaxRecs == 2
Procs == 1..NumProcs
NoProc == 0

Piece(p, r, kind) == [p |-> p, r |-> r, kind |-> kind]

InitSharedLog ==
    /\ sl_file = <<>>
    /\ sl_lock = NoProc
    /\ sl_pc = [p \in Procs |-> "get"]
    /\ sl_buf = [p \in Procs |-> <<>>]
    /\ sl_n = [p \in Procs |-> 0]
    /\ CacheIdle /\ ConsIdle /\ CdnIdle /\ ShardIdle /\ TbIdle /\ WaIdle /\ SelIdle /\ RowsIdle /\ BoIdle /\ BudIdle

\* Lines 164-170: an item is taken from the queue and _lock(f) returns, which it
\* does once no other process holds the lock.
NoFlock_SlLock(p) ==
    /\ sl_pc[p] = "get"
    /\ sl_n[p] < MaxRecs
    /\ sl_lock' = p
    /\ sl_n' = [sl_n EXCEPT ![p] = @ + 1]
    /\ sl_pc' = [sl_pc EXCEPT ![p] = "write"]
    /\ UNCHANGED <<sl_file, sl_buf, notSl>>

SlLock(p) ==
    /\ sl_pc[p] = "get"
    /\ sl_n[p] < MaxRecs
    /\ sl_lock = NoProc
    /\ sl_lock' = p
    /\ sl_n' = [sl_n EXCEPT ![p] = @ + 1]
    /\ sl_pc' = [sl_pc EXCEPT ![p] = "write"]
    /\ UNCHANGED <<sl_file, sl_buf, notSl>>

\* Line 171: json.dumps and f.write put the line into the buffer, or raise (a
\* value json cannot dump, a string utf-8 cannot encode) with nothing buffered.
SlWrite(p) ==
    /\ sl_pc[p] = "write"
    /\ \/ /\ sl_buf' = [sl_buf EXCEPT ![p] = <<Piece(p, sl_n[p], "line")>>]
          /\ sl_pc' = [sl_pc EXCEPT ![p] = "flush"]
       \/ /\ sl_pc' = [sl_pc EXCEPT ![p] = "failed"]
          /\ UNCHANGED sl_buf
    /\ UNCHANGED <<sl_file, sl_lock, sl_n, notSl>>

\* Line 172: f.flush() hands the buffer to the file, which appends it (O_APPEND);
\* or the write fails, with nothing written or with a part of the line written
\* (a full disk), and what was not written stays in the buffer.
SlFlush(p) ==
    /\ sl_pc[p] = "flush"
    /\ \/ /\ sl_file' = sl_file \o sl_buf[p]
          /\ sl_buf' = [sl_buf EXCEPT ![p] = <<>>]
          /\ sl_pc' = [sl_pc EXCEPT ![p] = "unlock"]
       \/ /\ sl_pc' = [sl_pc EXCEPT ![p] = "failed"]
          /\ UNCHANGED <<sl_file, sl_buf>>
       \/ /\ sl_file' = Append(sl_file, Piece(p, sl_n[p], "head"))
          /\ sl_buf' = [sl_buf EXCEPT ![p] = <<Piece(p, sl_n[p], "tail")>>]
          /\ sl_pc' = [sl_pc EXCEPT ![p] = "failed"]
    /\ UNCHANGED <<sl_lock, sl_n, notSl>>

\* Lines 173-175: the finally clause unlocks, after a failure too; the exception
\* then leaves the loop.
SlUnlock(p) ==
    /\ sl_pc[p] \in {"unlock", "failed"}
    /\ sl_lock' = NoProc
    /\ sl_pc' = [sl_pc EXCEPT ![p] = IF sl_pc[p] = "unlock" THEN "get" ELSE "closing"]
    /\ UNCHANGED <<sl_file, sl_buf, sl_n, notSl>>

\* Lines 176-177: the outer finally flushes and closes f, the loop having ended by
\* the stop signal or by an exception.  The flush writes what the buffer still
\* holds, or fails again.
SlClose(p) ==
    /\ \/ sl_pc[p] = "closing"
       \/ sl_pc[p] = "get"
    /\ \/ sl_file' = sl_file \o sl_buf[p]
       \/ sl_buf[p] # <<>> /\ sl_file' = sl_file
    /\ sl_buf' = [sl_buf EXCEPT ![p] = <<>>]
    /\ sl_pc' = [sl_pc EXCEPT ![p] = "closed"]
    /\ UNCHANGED <<sl_lock, sl_n, notSl>>

NextSharedLog ==
    \/ \E p \in Procs : SlLock(p)
    \/ \E p \in Procs : SlWrite(p)
    \/ \E p \in Procs : SlFlush(p)
    \/ \E p \in Procs : SlUnlock(p)
    \/ \E p \in Procs : SlClose(p)
SpecSharedLog == InitSharedLog /\ [][NextSharedLog]_vars

InSection(p) == sl_pc[p] \in {"write", "flush", "unlock", "failed"}
IsPrefix(a, b) == Len(a) <= Len(b) /\ SubSeq(b, 1, Len(a)) = a
\* Every line of the file is one whole record.
CompleteLines == \A i \in 1..Len(sl_file) : sl_file[i].kind = "line"

\* C25: shared durable log.  With several processes appending to one cache file
\* under the advisory lock, at most one process is inside the lock-write-flush
\* section at any time, each record is appended as one complete line, the lock
\* is released after every record even when the write fails, and no record in
\* the log is ever modified or removed.
C25_SharedLog ==
    /\ [](\A p, q \in Procs : (InSection(p) /\ InSection(q)) => p = q)
    /\ [](\A p \in Procs : (sl_lock = p) <=> InSection(p))
    /\ [](CompleteLines)
    /\ [][IsPrefix(sl_file, sl_file')]_vars

\* A flush of one process failed part-way and the next record of the other
\* process follows the fragment on the same line.
C25_TornLine ==
    \E i \in 1..(Len(sl_file) - 1) :
        /\ sl_file[i].kind = "head"
        /\ sl_file[i + 1].kind = "line"
        /\ sl_file[i + 1].p # sl_file[i].p

\* What does hold: mutual exclusion of the section, the lock released after
\* every record whether or not the write failed, the file only ever extended,
\* and, as long as no flush has failed part-way, nothing but whole records in it.
SharedLogWithoutTornWrite ==
    /\ [](\A p, q \in Procs : (InSection(p) /\ InSection(q)) => p = q)
    /\ [](\A p \in Procs : (sl_lock = p) <=> InSection(p))
    /\ []((\A i \in 1..Len(sl_file) : sl_file[i].kind # "head") => CompleteLines)
    /\ [][IsPrefix(sl_file, sl_file')]_vars

C27_StableSuccesses ==
    [][\A k \in IpKeys :
           /\ OkWithCc(DictGet(cache, k)) => DictGet(cache', k) = DictGet(cache, k)
           /\ k \in DOMAIN cache => k \in DOMAIN cache']_vars

\* Both files hold the IP, both retry flags are set, the lookup made for the
\* first file returned ok with a country code, and the run has ended with that
\* one lookup.
C27_Witness ==
    /\ mainPc = "done" /\ ~interrupted
    /\ cfg.RETRY_BAD_CACHE /\ cfg.RETRY_EMPTY_CC /\ cfg.BUDGET = 0
    /\ hist.out0 = <<FALSE, FALSE>>
    /\ \A j \in Jobs : 1 \in job_ips[j]
    /\ hist.performed = {[file |-> 1, ip |-> 1, data |-> OkEntry("RU")]}
    /\ Len(journal) = NumJobs
    /\ \A j \in 1..Len(journal) : journal[j].status = "ok"

\* C28: every file that is readable and has a source-IP column is processed
\* to status ok, also when no IP is left for it: the output is then the
\* surviving rows with empty registry fields.
C28_NoIpFileIsOk ==
    rowsPc = "done" =>
        /\ rows_out.status = "ok"
        /\ Lines(rows_out.rows) = Lines(filter_rows(rows_in.df, rows_in))

\* A file whose rows all have a missing src, none of them removed by the CDN
\* filter, has raised in process_csv.
C28_NoIpFileRaises ==
    /\ rowsPc = "done"
    /\ rows_out.status = "error"
    /\ rows_in.df # <<>>
    /\ filter_rows(rows_in.df, rows_in) = rows_in.df
    /\ \A i \in 1..Len(rows_in.df) : rows_in.df[i].src = NaSrc

\* What does hold: process_csv returns a frame exactly when an IP is left after
\* the filter, and raises otherwise.
RaisesIffNoIpLeft ==
    rowsPc = "done" =>
        (rows_out.status = "ok" <=> ips_of(filter_rows(rows_in.df, rows_in)) # {})

(***************************************************************************)
(* The run under fair scheduling: the main thread, the writer thread and   *)
(* every pool worker with a lookup in hand each take their next step       *)
(* eventually when they can.  A KeyboardInterrupt may come or not.  The    *)
(* settings are the defaults of lines 68-80.                               *)
(***************************************************************************)
DefaultConfig ==
    [RETRY_BAD_CACHE |-> TRUE, RETRY_EMPTY_CC |-> TRUE, BUDGET |-> 0,
     SKIP_IF_EXISTS |-> TRUE]

\* The runs followed to their end: the default settings, with no output present
\* at the start or that of the first file only, and a log that is empty or holds
\* one good record (a failed record is queried again like an absent one).
InitLive ==
    /\ Init
    /\ cfg = DefaultConfig
    /\ \A j \in Jobs : out_exists[j] => j = 1
    /\ cacheFile # <<WrittenLine(1, FailEntry)>>

MainStep ==
    \/ CheckPartDir \/ LoadCache \/ Discover \/ StartWriter \/ NextFile \/ Process
    \/ Collect \/ Put \/ Merge \/ WriteTmp \/ Replace \/ JournalOk \/ FileRaises
    \/ FileError \/ Shutdown \/ Stop \/ Join

\* The pool's workers: while a lookup is pending, some lookup returns.
PoolStep == \E ip \in IpKeys : Lookup(ip)

Fairness ==
    /\ WF_vars(MainStep)
    /\ WF_vars(WriterStep)
    /\ WF_vars(PoolStep)

SpecLive == InitLive /\ [][Next]_vars /\ Fairness

RunEnded == mainPc \in {"done", "exit1", Raised}

Credited == tb_tokens + OneToken * Cardinality(ZeroWait) - Capacity

\* C30: _tb_last never decreases.  An acquire whose sample is not later than the
\* stored _tb_last adds no tokens and leaves _tb_last as it is; any other acquire
\* moves _tb_last to its sample and credits at most the time between the two; so,
\* whatever the interleaving of the workers, the tokens credited never exceed the
\* time that _tb_last has covered, and no stretch of time is credited twice.
C30_LastRefillMonotone ==
    /\ [](tb_last <= clock /\ Credited <= tb_last)
    /\ [][/\ tb_last' >= tb_last
          /\ IF Len(acq_log') = Len(acq_log) + 1
             THEN LET a == acq_log'[Len(acq_log')]
                      taken == IF a.wait = 0 THEN OneToken ELSE 0
                  IN IF a.now <= tb_last
                     THEN tb_last' = tb_last /\ tb_tokens' = tb_tokens - taken
                     ELSE /\ tb_last' = a.now
                          /\ tb_tokens' + taken <= tb_tokens + (a.now - tb_last)
             ELSE tb_last' = tb_last]_vars

\* An acquire used a sample older than that of an acquire before it, so older than
\* _tb_last, and a later acquire with a newer sample was credited the time since.
C30_Witness ==
    \E i, j, k \in 1..Len(acq_log) :
        /\ i < j /\ j < k
        /\ acq_log[j].now < acq_log[i].now
        /\ acq_log[k].now > acq_log[i].now
        /\ tb_last = acq_log[k].now
        /\ Credited > 0

====
